---- MODULE Spec2Model ----
(***************************************************************************)
(* Price index of orbitstabilizer/cmpe492 (price-index): the ticker        *)
(* lattice written by the exchange sessions (package ws), the update       *)
(* channel, and the index engine ShmLayout.UpdatePriceIndex with its       *)
(* adaptive exchange weights; and the sharding of the Bybit session.       *)
(*                                                                         *)
(* float64 values are NaN, +Inf, -Inf or an exact rational: the special    *)
(* values follow IEEE 754 as Go computes them, the finite values are       *)
(* computed exactly (rounding and the sign of zero are not modelled); a    *)
(* result of magnitude 2^1024 or more overflows to an infinity.            *)
(* Numerators and denominators are unbounded naturals, kept as             *)
(* little-endian digit sequences of radix 10000.                           *)
(***************************************************************************)
EXTENDS Integers, Sequences, FiniteSets, TLC

(***************************************************************************)
(* Unbounded naturals                                                      *)
(***************************************************************************)
\* the element of a one-element set.  In {F(x) : x \in {e}} the expression
\* e is evaluated once, however often F uses x
The(S) == CHOOSE r \in S : TRUE

Lo(x) == x % 10000
Hi(x) == x \div 10000

Dig(s, i) == IF i <= Len(s) THEN s[i] ELSE 0

\* s without its leading zero digits (the most significant ones)
Trim(s) ==
  The({IF \A i \in 1 .. Len(x) : x[i] = 0 THEN <<>>
       ELSE SubSeq(x, 1, CHOOSE i \in 1 .. Len(x) :
                           x[i] # 0 /\ \A k \in i + 1 .. Len(x) : x[k] = 0)
       : x \in {s}})

RECURSIVE NatDigits(_)
NatDigits(x) == IF x = 0 THEN <<>> ELSE <<Lo(x)>> \o NatDigits(Hi(x))

\* the carry into digit i of a + b: a lower digit sum overflows the radix and
\* the digit sums between are all radix - 1
Carry(a, b, i) ==
  IF \E j \in 1 .. i - 1 :
       /\ Dig(a, j) + Dig(b, j) >= 10000
       /\ \A k \in j + 1 .. i - 1 : Dig(a, k) + Dig(b, k) = 9999
  THEN 1 ELSE 0

NAdd(a, b) ==
  The({Trim([i \in 1 .. (IF Len(x) > Len(y) THEN Len(x) ELSE Len(y)) + 1 |->
               Lo(Dig(x, i) + Dig(y, i) + Carry(x, y, i))])
       : x \in {a}, y \in {b}})

\* the borrow from digit i of a - b
Borrow(a, b, i) ==
  IF \E j \in 1 .. i - 1 :
       /\ Dig(a, j) < Dig(b, j)
       /\ \A k \in j + 1 .. i - 1 : Dig(a, k) = Dig(b, k)
  THEN 1 ELSE 0

\* a - b, for a >= b
NSub(a, b) ==
  The({Trim([i \in 1 .. Len(x) |->
               Lo(10000 + x[i] - Dig(y, i) - Borrow(x, y, i))])
       : x \in {a}, y \in {b}})

\* -1, 0, 1 as a < b, a = b, a > b
NCmp(a, b) ==
  The({IF Len(x) # Len(y) THEN (IF Len(x) > Len(y) THEN 1 ELSE -1)
       ELSE IF x = y THEN 0
       ELSE IF \E i \in 1 .. Len(x) :
                 x[i] > y[i] /\ \A k \in i + 1 .. Len(x) : x[k] = y[k]
            THEN 1 ELSE -1
       : x \in {a}, y \in {b}})

\* the digits lo .. hi of a * m + c for a digit m, and the carry out of
\* them; the range is halved so that the depth of the evaluation grows with
\* its logarithm
RECURSIVE MulD(_, _, _, _, _)
MulD(a, m, lo, hi, c) ==
  IF lo = hi
  THEN <<<<Lo(a[lo] * m + c)>>, Hi(a[lo] * m + c)>>
  ELSE The({The({<<l[1] \o h[1], h[2]>>
                 : h \in {MulD(a, m, (lo + hi) \div 2 + 1, hi, l[2])}})
            : l \in {MulD(a, m, lo, (lo + hi) \div 2, c)}})

\* a * m for a digit m > 0 and a # 0
MulDigit(a, m) ==
  The({IF p[2] = 0 THEN p[1] ELSE Append(p[1], p[2])
       : p \in {MulD(a, m, 1, Len(a), 0)}})

\* a * (b[lo] * 10000^(lo-1) + ... + b[hi] * 10000^(hi-1)); the range is
\* halved so that the depth of the evaluation grows with its logarithm
RECURSIVE MulC(_, _, _, _)
MulC(a, b, lo, hi) ==
  IF lo = hi
  THEN (IF b[lo] = 0 THEN <<>>
        ELSE [i \in 1 .. lo - 1 |-> 0] \o MulDigit(a, b[lo]))
  ELSE The({NAdd(MulC(a, b, lo, mid), MulC(a, b, mid + 1, hi))
            : mid \in {(lo + hi) \div 2}})

NMul(a, b) ==
  The({IF x = <<>> \/ y = <<>> THEN <<>>
       ELSE IF y = <<1>> THEN x
       ELSE IF x = <<1>> THEN y
       ELSE IF Len(y) = 1 THEN MulDigit(x, y[1])
       ELSE IF Len(x) = 1 THEN MulDigit(y, x[1])
       ELSE MulC(x, y, 1, Len(y))
       : x \in {a}, y \in {b}})

\* the quotient digits lo .. hi of (r * 10000^(hi-lo+1) + a[lo .. hi]) by a
\* small m (0 < m <= 10000, r < m), and the remainder; the range is halved
RECURSIVE DivD(_, _, _, _, _)
DivD(a, m, lo, hi, r) ==
  IF lo = hi
  THEN <<<<(r * 10000 + a[lo]) \div m>>, (r * 10000 + a[lo]) % m>>
  ELSE The({The({<<l[1] \o h[1], l[2]>>
                 : l \in {DivD(a, m, lo, (lo + hi) \div 2, h[2])}})
            : h \in {DivD(a, m, (lo + hi) \div 2 + 1, hi, r)}})

NMod(a, m) ==
  The({IF x = <<>> THEN 0 ELSE DivD(x, d, 1, Len(x), 0)[2] : x \in {a}, d \in {m}})

NDiv(a, m) ==
  The({IF d = 1 \/ x = <<>> THEN x ELSE Trim(DivD(x, d, 1, Len(x), 0)[1])
       : x \in {a}, d \in {m}})

RECURSIVE Gcd(_, _)
Gcd(a, b) == IF b = 0 THEN a ELSE Gcd(b, a % b)

\* the fraction p[1]/p[2] (both > 0) with the common factors that divide m
\* cancelled
RECURSIVE Cancel(_, _)
Cancel(p, m) ==
  The({The({IF g = 1 THEN q ELSE Cancel(<<NDiv(q[1], g), NDiv(q[2], g)>>, m)
            : g \in {Gcd(Gcd(NMod(q[1], m), m), NMod(q[2], m))}})
       : q \in {p}})

\* n/d with the common prime factors below 29 cancelled: the radix and
\* the products 3*7*11*13 and 17*19*23 hold them all
Reduce(n, d) == Cancel(Cancel(Cancel(<<n, d>>, 10000), 3003), 7429)

(***************************************************************************)
(* float64                                                                 *)
(***************************************************************************)
NaN == [k |-> "nan"]
Inf(neg) == [k |-> "inf", neg |-> neg]

\* 2^1024, the first magnitude beyond the exponent range of float64
TwoTo1024 ==
  <<7216, 2413, 6242, 6329, 3535, 3048, 9716, 3847, 2459, 9947, 9823,
    5862, 684, 5051, 1633, 7237, 4082, 1105, 3913, 8147, 4628, 2342, 5068,
    8381, 5768, 8500, 9520, 3082, 1945, 941, 1246, 1960, 3022, 5276, 6548,
    4248, 7893, 7776, 1243, 9474, 3063, 8474, 2492, 1662, 8144, 9768,
    5878, 3576, 1393, 7987, 1138, 1120, 3602, 4075, 7322, 847, 1327, 963,
    550, 6758, 7732, 8115, 4300, 7273, 3065, 8942, 7697, 6179, 4733, 8902,
    1907, 9305, 772, 3159, 4862, 9313, 7976, 1>>

\* n/d >= 2^1024 (2^1024 has 78 digits)
Overflows(n, d) ==
  /\ Len(n) >= Len(d) + 77
  /\ NCmp(n, NMul(TwoTo1024, d)) >= 0

\* the finite value (-1)^neg * n/d, in lowest terms; zero is +0; an
\* infinity when the magnitude is beyond the exponent range
Fin(neg, n, d) ==
  The({IF x = <<>> THEN [k |-> "fin", neg |-> FALSE, n |-> <<>>, d |-> <<1>>]
       ELSE IF Overflows(x, y) THEN Inf(neg)
       ELSE IF y = <<1>> THEN [k |-> "fin", neg |-> neg, n |-> x, d |-> y]
       ELSE The({[k |-> "fin", neg |-> neg, n |-> r[1], d |-> r[2]]
                 : r \in {Reduce(x, y)}})
       : x \in {n}, y \in {d}})

\* the float64 nearest to the decimal literal p/q, for small integers
Lit(p, q) == Fin(p < 0, NatDigits(IF p < 0 THEN -p ELSE p), NatDigits(q))

IsNaN(x) == x.k = "nan"
IsInf(x) == x.k = "inf"
IsFinite(x) == x.k = "fin"
IsZero(x) == x.k = "fin" /\ x.n = <<>>

\* x + y
FAdd(x, y) ==
  The({IF IsNaN(u) \/ IsNaN(v) THEN NaN
       ELSE IF IsInf(u) /\ IsInf(v) THEN (IF u.neg = v.neg THEN u ELSE NaN)
       ELSE IF IsInf(u) THEN u
       ELSE IF IsInf(v) THEN v
       ELSE IF IsZero(u) THEN v
       ELSE IF IsZero(v) THEN u
       ELSE The({IF u.neg = v.neg THEN Fin(u.neg, NAdd(a, b), NMul(u.d, v.d))
                 ELSE IF NCmp(a, b) >= 0 THEN Fin(u.neg, NSub(a, b), NMul(u.d, v.d))
                 ELSE Fin(v.neg, NSub(b, a), NMul(u.d, v.d))
                 : a \in {NMul(u.n, v.d)}, b \in {NMul(v.n, u.d)}})
       : u \in {x}, v \in {y}})

\* x * y
FMul(x, y) ==
  The({IF IsNaN(u) \/ IsNaN(v) THEN NaN
       ELSE IF IsInf(u) \/ IsInf(v)
            THEN (IF IsZero(u) \/ IsZero(v) THEN NaN ELSE Inf(u.neg # v.neg))
       ELSE Fin(u.neg # v.neg, NMul(u.n, v.n), NMul(u.d, v.d))
       : u \in {x}, v \in {y}})

\* x / y
FDiv(x, y) ==
  The({IF IsNaN(u) \/ IsNaN(v) THEN NaN
       ELSE IF IsInf(u) THEN (IF IsInf(v) THEN NaN ELSE Inf(u.neg # v.neg))
       ELSE IF IsInf(v) THEN Lit(0, 1)
       ELSE IF IsZero(v) THEN (IF IsZero(u) THEN NaN ELSE Inf(u.neg))
       ELSE Fin(u.neg # v.neg, NMul(u.n, v.d), NMul(u.d, v.n))
       : u \in {x}, v \in {y}})

\* x > 0
FPos(x) ==
  \/ IsInf(x) /\ ~x.neg
  \/ IsFinite(x) /\ ~x.neg /\ x.n # <<>>

\* x < 0
FNegative(x) == (IsInf(x) \/ IsFinite(x)) /\ x.neg

\* x == y (false when either is NaN)
FEq(x, y) ==
  \E u \in {x}, v \in {y} :
    /\ ~IsNaN(u)
    /\ ~IsNaN(v)
    /\ u.k = v.k
    /\ u.neg = v.neg
    /\ IsFinite(u) => NMul(u.n, v.d) = NMul(v.n, u.d)

(***************************************************************************)
(* Dimensions and inputs                                                   *)
(***************************************************************************)
NUM_EXCHANGES == 8
BINANCE == 0
BYBIT == 1
GATEIO == 3
HTX == 4
KUCOIN == 5
OKX == 7
Exchanges == 0 .. NUM_EXCHANGES - 1

\* capacity of updateChan
ChanCap == 1

\* columns of the lattice that are modelled (a prefix of the NUM_SYMBOLS columns)
NumSlots == 2
Slots == 0 .. NumSlots - 1

\* messages normalized by all sessions together in one run
MaxMsgs == 2

\* the sessions whose venue sends ticker messages
Feeds == {BINANCE, OKX}

\* a numeric field as it arrives on the wire
Dec(p) == [t |-> "dec", p |-> p]
Txt(s) == [t |-> "txt", s |-> s]

\* 10^308 = 10000^77
TenTo308 == [i \in 1 .. 78 |-> IF i = 78 THEN 1 ELSE 0]

\* strconv.ParseFloat(s, 64) with its error discarded: 0 for text that is
\* no number, the special values for their spellings
ParseFloat(w) ==
  IF w.t = "dec" THEN Lit(w.p, 1)
  ELSE IF w.s \in {"Inf", "+Inf", "Infinity"} THEN Inf(FALSE)
  ELSE IF w.s \in {"-Inf", "-Infinity"} THEN Inf(TRUE)
  ELSE IF w.s = "NaN" THEN NaN
  ELSE IF w.s = "1e308" THEN Fin(FALSE, TenTo308, <<1>>)
  ELSE Lit(0, 1)

Msg(b, a, bq, aq) == [b |-> b, a |-> a, B |-> bq, A |-> aq]

\* top-of-book messages the venues send
Quote1 == Msg(Dec(60000), Dec(60001), Dec(1), Dec(1))
Quote2 == Msg(Dec(60002), Dec(60003), Dec(1), Dec(1))
QuoteNoBid == Msg(Dec(60000), Dec(60001), Dec(0), Dec(2))
QuoteEmpty == Msg(Dec(60002), Dec(60003), Dec(0), Dec(0))
QuoteInfPrice == Msg(Txt("Inf"), Dec(60003), Dec(1), Dec(1))
QuoteInfQty == Msg(Dec(60000), Dec(60001), Txt("Inf"), Dec(1))
QuoteNegQty == Msg(Dec(60002), Dec(60003), Dec(-1), Dec(3))
\* a message with finite quantities near the top of the float64 range
QuoteHugeQty == Msg(Dec(60000), Dec(60001), Txt("1e308"), Txt("1e308"))
\* a control message of a venue, such as the acknowledgement of the
\* subscription: it has no symbol field and no price or quantity field, so
\* json.Unmarshal leaves all of them the empty string
Ack == Msg(Txt(""), Txt(""), Txt(""), Txt(""))
\* a message whose price fields are empty strings
QuoteNoPrices == Msg(Txt(""), Txt(""), Dec(1), Dec(1))

\* a side of an order book message that lists no level: data.b or data.a
\* is an empty list, so it has no element [0]
NoLevels == [t |-> "none"]
\* an order book message of Bybit whose bid side is empty
BookNoBid == Msg(NoLevels, Dec(60001), NoLevels, Dec(1))
\* v.Data.B[0][0] or v.Data.A[0][0] is an index out of range
IndexOutOfRange(m) == m.b = NoLevels \/ m.a = NoLevels


(***************************************************************************)
(* State                                                                   *)
(***************************************************************************)
VARIABLES
  roster,           \* roster[e]: number of symbols of exchange e in exchange_info.json
  unlisted,         \* unlisted[e]: the positions of row e whose entry is the empty
                    \* string (the venue does not list the pair)
  stored,           \* history: stored[j][f] numbers the recompute whose store the
                    \* field f of PriceIndices[j] holds; 0 for what the start left
  stream,           \* stream[e]: the messages venue e sends in this run
  Tickers,          \* shmData.Tickers[e][j]
  PriceIndices,     \* shmData.PriceIndices[j]
  exchangeWeights,  \* exchangeWeights[j][e]
  updateChan,       \* the buffered channel of slots
  pc,               \* pc[e]: where the read loop of session e stands
  tickId,           \* tickId[e]: the slot session e resolved for its message
  engine,           \* the index goroutine: waiting on the channel or recomputing
  msgSeq,           \* history: messages normalized so far by session e
  cellSeq,          \* history: number of the message whose values cell [e][j] holds
  chanSrc,          \* history: sender and message number of each queued slot
  recvSeq,          \* history: last message of e for slot j the engine received
  lastScan,         \* history: the column, weights and totals of the last recompute
  scen,             \* history: progress through the two-venue scenario
  bybit,            \* the Bybit session: symbol count, loop offset, shards
  conn,             \* conn[e]: the sockets of session e and its place in the
                    \* connection cycle
  trace,            \* history: per session, the messages written to the lattice,
                    \* sent on the channel and received by the engine, in order
  main,             \* the goroutine of main: its place, shouldClose, and the
                    \* shared-memory writer w (file, mapping)
  sink              \* the goroutine of saveToDb: its place in the tick, and
                    \* history: the slots read and the records inserted

vars == <<roster, unlisted, stored, stream, Tickers, PriceIndices, exchangeWeights, updateChan, pc,
          tickId, engine, msgSeq, cellSeq, chanSrc, recvSeq, lastScan, scen,
          bybit, conn, trace, main, sink>>

\* schema.TickerData
TickerData(bid, ask, bidQty, askQty) ==
  [Bid |-> bid, Ask |-> ask, BidQty |-> bidQty, AskQty |-> askQty]

NaNCell == TickerData(NaN, NaN, NaN, NaN)
ZeroCell == TickerData(Lit(0, 1), Lit(0, 1), Lit(0, 1), Lit(0, 1))
\* a cell as a previous run left it in the file
StaleCell == TickerData(Lit(60002, 1), Lit(60003, 1), Lit(2, 1), Lit(1, 1))

\* PriceIndex of a fresh file, and as a previous run left it
ZeroIndex ==
  [Val |-> Lit(0, 1), Cnt |-> 0, BidVWAP |-> Lit(0, 1),
   BidQtyTotal |-> Lit(0, 1), AskVWAP |-> Lit(0, 1), AskQtyTotal |-> Lit(0, 1)]
StaleIndex ==
  [Val |-> Lit(120005, 2), Cnt |-> 3, BidVWAP |-> Lit(60002, 1),
   BidQtyTotal |-> Lit(6, 1), AskVWAP |-> Lit(60003, 1), AskQtyTotal |-> Lit(3, 1)]

\* the content of the shared-memory file when NewSHMWriter maps it: zero
\* bytes when the file is new, else what the previous run wrote (here a
\* run whose roster had Binance, Bybit and OKX)
FreshFile ==
  [Tickers |-> [e \in Exchanges |-> [j \in Slots |-> ZeroCell]],
   PriceIndices |-> [j \in Slots |-> ZeroIndex]]
PreviousRunFile ==
  [Tickers |-> [e \in Exchanges |-> [j \in Slots |->
                  IF e \in {BINANCE, BYBIT, OKX} THEN StaleCell ELSE ZeroCell]],
   PriceIndices |-> [j \in Slots |-> StaleIndex]]

\* the default weights of one symbol
DefaultWeights ==
  <<Lit(40, 100), Lit(75, 1000), Lit(72, 1000), Lit(74, 1000),
    Lit(68, 1000), Lit(70, 1000), Lit(10, 100), Lit(5, 100)>>

initWeights == [j \in Slots |-> [e \in Exchanges |-> DefaultWeights[e + 1]]]

\* rosters: every venue lists every pair; or only Binance and OKX have
\* symbols, and OKX lists the first pair only
FullRoster == [e \in Exchanges |-> NumSlots]
ShortRoster ==
  [e \in Exchanges |-> IF e = BINANCE THEN NumSlots ELSE IF e = OKX THEN 1 ELSE 0]

\* main: the cells and indices of the roster are set to NaN, the rest keeps
\* the bytes of the file
InitLattice(r, file) ==
  [e \in Exchanges |-> [j \in Slots |->
     IF j < r[e] THEN NaNCell ELSE file.Tickers[e][j]]]

InitIndices(r, file) ==
  [j \in Slots |->
     IF \E e \in Exchanges : j < r[e] THEN [file.PriceIndices[j] EXCEPT !.Val = NaN]
     ELSE file.PriceIndices[j]]

(***************************************************************************)
(* Normalizer                                                              *)
(***************************************************************************)
\* TickerData.Parse: the prices of the message
ParsePrices(t, m) == [t EXCEPT !.Bid = ParseFloat(m.b), !.Ask = ParseFloat(m.a)]

\* the quantities of the message
ParseQty(t, m) == [t EXCEPT !.BidQty = ParseFloat(m.B), !.AskQty = ParseFloat(m.A)]

\* a Parse that leaves the quantities of the cell as they were
ParseSkipQty(t, m) == [t EXCEPT !.Bid = ParseFloat(m.b), !.Ask = ParseFloat(m.a)]

Parse(t, m) == ParseQty(ParsePrices(t, m), m)

(***************************************************************************)
(* Index engine: ShmLayout.UpdatePriceIndex                                *)
(***************************************************************************)
ZeroAcc ==
  [weightedMidPrice |-> Lit(0, 1), totalWeight |-> Lit(0, 1),
   bidQtyTotal |-> Lit(0, 1), askQtyTotal |-> Lit(0, 1),
   bidNotTotal |-> Lit(0, 1), askNotTotal |-> Lit(0, 1),
   numValidExchanges |-> 0,
   qtyPerExchange |-> [e \in Exchanges |-> Lit(0, 1)]]

\* the test of the first pass on the four fields
HasQuote(ticker) ==
  /\ ~IsNaN(ticker.Bid)
  /\ ~IsNaN(ticker.Ask)
  /\ ~IsNaN(ticker.BidQty)
  /\ ~IsNaN(ticker.AskQty)

totalQty(ticker) == FAdd(ticker.BidQty, ticker.AskQty)

midPrice(ticker) == FDiv(FAdd(ticker.Bid, ticker.Ask), Lit(2, 1))

\* a first loop in which each row replaces the sums instead of adding to them
ScanRowOverwrite(acc, ticker, w, exchIx) ==
  IF HasQuote(ticker) /\ FPos(totalQty(ticker))
  THEN [weightedMidPrice |-> FMul(midPrice(ticker), w),
        totalWeight |-> w,
        bidQtyTotal |-> ticker.BidQty,
        askQtyTotal |-> ticker.AskQty,
        bidNotTotal |-> FMul(ticker.BidQty, ticker.Bid),
        askNotTotal |-> FMul(ticker.AskQty, ticker.Ask),
        numValidExchanges |-> acc.numValidExchanges + 1,
        qtyPerExchange |-> [acc.qtyPerExchange EXCEPT ![exchIx] = totalQty(ticker)]]
  ELSE acc

\* the body of the first loop for one exchange
ScanRow(acc, ticker, w, exchIx) ==
  IF HasQuote(ticker)
  THEN IF FPos(totalQty(ticker))
       THEN [weightedMidPrice |-> FAdd(acc.weightedMidPrice, FMul(midPrice(ticker), w)),
             totalWeight |-> FAdd(acc.totalWeight, w),
             bidQtyTotal |-> FAdd(acc.bidQtyTotal, ticker.BidQty),
             askQtyTotal |-> FAdd(acc.askQtyTotal, ticker.AskQty),
             bidNotTotal |-> FAdd(acc.bidNotTotal, FMul(ticker.BidQty, ticker.Bid)),
             askNotTotal |-> FAdd(acc.askNotTotal, FMul(ticker.AskQty, ticker.Ask)),
             numValidExchanges |-> acc.numValidExchanges + 1,
             qtyPerExchange |-> [acc.qtyPerExchange EXCEPT ![exchIx] = totalQty(ticker)]]
       ELSE [acc EXCEPT !.numValidExchanges = @ + 1]
  ELSE acc

\* first pass over the rows exchIx .. NUM_EXCHANGES-1 of a column
RECURSIVE FirstPass(_, _, _, _)
FirstPass(acc, column, weights, exchIx) ==
  IF exchIx >= NUM_EXCHANGES THEN acc
  ELSE FirstPass(ScanRow(acc, column[exchIx], weights[exchIx], exchIx),
                 column, weights, exchIx + 1)

\* a moving average with its two constants exchanged
AdaptWeightSwapped(w, qtyRatio) ==
  FAdd(FMul(Lit(1, 100), w), FMul(Lit(99, 100), qtyRatio))

\* the moving average of one weight
AdaptWeight(w, qtyRatio) == FAdd(FMul(Lit(99, 100), w), FMul(Lit(1, 100), qtyRatio))

\* a second pass that also decays the weights of the exchanges that did
\* not contribute
SecondPassEveryRow(weights, acc) ==
  [e \in Exchanges |->
     IF FPos(acc.qtyPerExchange[e])
     THEN AdaptWeight(weights[e],
                      FDiv(acc.qtyPerExchange[e], FAdd(acc.bidQtyTotal, acc.askQtyTotal)))
     ELSE AdaptWeight(weights[e], Lit(0, 1))]

\* second pass: the weights of the symbol after the recompute
SecondPass(weights, acc) ==
  [e \in Exchanges |->
     IF FPos(acc.qtyPerExchange[e])
     THEN AdaptWeight(weights[e],
                      FDiv(acc.qtyPerExchange[e], FAdd(acc.bidQtyTotal, acc.askQtyTotal)))
     ELSE weights[e]]

\* a composite that is not divided by the total weight
IndexValUnnormalized(acc) == acc.weightedMidPrice

\* the composite mid-price of a commit
IndexVal(acc) == FDiv(acc.weightedMidPrice, acc.totalWeight)

\* a commit that adds the totals of the recompute to the totals of the slot
FinalizeAccumulate(old, acc) ==
  IF FPos(acc.totalWeight)
  THEN [Val |-> IndexVal(acc),
        Cnt |-> acc.numValidExchanges,
        AskQtyTotal |-> FAdd(old.AskQtyTotal, acc.askQtyTotal),
        BidQtyTotal |-> FAdd(old.BidQtyTotal, acc.bidQtyTotal),
        AskVWAP |-> FDiv(acc.askNotTotal, acc.askQtyTotal),
        BidVWAP |-> FDiv(acc.bidNotTotal, acc.bidQtyTotal)]
  ELSE [old EXCEPT !.Val = NaN]

\* a commit whose no-contribution branch clears the whole slot
FinalizeClearsSlot(old, acc) ==
  IF FPos(acc.totalWeight)
  THEN [Val |-> IndexVal(acc),
        Cnt |-> acc.numValidExchanges,
        AskQtyTotal |-> acc.askQtyTotal,
        BidQtyTotal |-> acc.bidQtyTotal,
        AskVWAP |-> FDiv(acc.askNotTotal, acc.askQtyTotal),
        BidVWAP |-> FDiv(acc.bidNotTotal, acc.bidQtyTotal)]
  ELSE [Val |-> NaN, Cnt |-> 0, AskQtyTotal |-> Lit(0, 1), BidQtyTotal |-> Lit(0, 1),
        AskVWAP |-> Lit(0, 1), BidVWAP |-> Lit(0, 1)]

\* the index slot after the recompute
Finalize(old, acc) ==
  IF FPos(acc.totalWeight)
  THEN [Val |-> IndexVal(acc),
        Cnt |-> acc.numValidExchanges,
        AskQtyTotal |-> acc.askQtyTotal,
        BidQtyTotal |-> acc.bidQtyTotal,
        AskVWAP |-> FDiv(acc.askNotTotal, acc.askQtyTotal),
        BidVWAP |-> FDiv(acc.bidNotTotal, acc.bidQtyTotal)]
  ELSE [old EXCEPT !.Val = NaN]

\* the column symIx of the lattice, one cell per exchange
Column(symIx) == [e \in Exchanges |-> Tickers[e][symIx]]

Scan(symIx) == FirstPass(ZeroAcc, Column(symIx), exchangeWeights[symIx], 0)

(***************************************************************************)
(* Histories                                                               *)
(***************************************************************************)
NoScan == [symIx |-> -1]
NoMsg == [none |-> TRUE]
NoTrace == [writes |-> <<>>, sends |-> <<>>, recvs |-> <<>>]
NoPing == [sock |-> 0]
NoRow == <<>>

\* a session that has dialed and subscribed once and is reading.  open: the
\* sockets dialed and not closed; sock: the socket conn refers to; last: the
\* latest step of the connection code; prev: the step before the latest
\* Dial; ping: the pingVal being answered; pings, pongs: the ping values
\* read and the pong messages written; rowAtFault: the row of the session
\* as the latest read error found it, until the next message is normalized;
\* fatal: the call whose error made the session panic; pingers: the sockets
\* a ping goroutine of connectKucoin writes to
Streaming ==
  [open |-> {1}, sock |-> 1, dials |-> 1, faults |-> 0, last |-> "subscribe",
   prev |-> "start", ping |-> NoPing, pings |-> <<>>, pongs |-> <<>>,
   rowAtFault |-> NoRow, fatal |-> "", pingers |-> {}]

\* session e streaming on its first socket
StreamingOf(e) == [Streaming EXCEPT !.pingers = IF e = KUCOIN THEN {1} ELSE {}]

\* main blocked on <-sigint, the file of the writer open and mapped
Serving ==
  [pc |-> "serve", shouldClose |-> FALSE, file |-> "open", mapped |-> TRUE,
   exists |-> TRUE]

\* the goroutine of saveToDb waiting for its ticker
SinkIdle == [pc |-> "wait", symIx |-> 0, ticks |-> 0, seen |-> <<>>, rows |-> <<>>]

\* progress through: cold start, Binance writes Quote1 to slot 0, the engine
\* recomputes, OKX writes Quote2 to slot 0, the engine recomputes (1 .. 4);
\* and through the same two updates with OKX first (11 .. 14).  5: the run
\* is neither scenario.
ScenAfterWrite(s, e, j, m) ==
  IF s = 0 /\ e = BINANCE /\ j = 0 /\ m = Quote1 THEN 1
  ELSE IF s = 2 /\ e = OKX /\ j = 0 /\ m = Quote2 THEN 3
  ELSE IF s = 0 /\ e = OKX /\ j = 0 /\ m = Quote2 THEN 11
  ELSE IF s = 12 /\ e = BINANCE /\ j = 0 /\ m = Quote1 THEN 13
  ELSE 5

ScenAfterUpdate(s) ==
  IF s = 1 THEN 2 ELSE IF s = 3 THEN 4
  ELSE IF s = 11 THEN 12 ELSE IF s = 13 THEN 14 ELSE 5

(***************************************************************************)
(* Exchange sessions: the read loop of connectBinance, connectOKX, ...     *)
(***************************************************************************)
\* a loop body that sends the slot before it writes the cell
ThenSendFirst(p) ==
  IF p = "read" THEN "send" ELSE IF p = "send" THEN "parse" ELSE "read"

\* the order of the loop body: read and decode a frame, write the cell,
\* send the slot, read again
Then(p) ==
  IF p = "read" THEN "parse" ELSE IF p = "parse" THEN "send" ELSE "read"

\* f[e] + ... + f[NUM_EXCHANGES-1]
RECURSIVE Total(_, _)
Total(f, e) == IF e >= NUM_EXCHANGES THEN 0 ELSE f[e] + Total(f, e + 1)

\* a session that takes the next frame although the slot of the previous
\* message is not sent yet
ReadMessageEager(e) ==
  /\ pc[e] \in {"read", "send"}
  /\ e \in DOMAIN stream
  /\ Total(msgSeq, 0) < MaxMsgs
  /\ \E j \in Slots, m \in stream[e] :
       /\ j < roster[e]
       /\ j \notin unlisted[e]
       /\ tickId' = [tickId EXCEPT ![e] = [slot |-> j, ticker |-> m]]
  /\ msgSeq' = [msgSeq EXCEPT ![e] = @ + 1]
  /\ pc' = [pc EXCEPT ![e] = Then("read")]
  /\ UNCHANGED <<roster, unlisted, stored, stream, main, sink, conn, trace, Tickers, PriceIndices, exchangeWeights,
                 updateChan, engine, cellSeq, chanSrc, recvSeq, lastScan, scen, bybit>>

\* conn.ReadMessage and json.Unmarshal: a frame of a symbol of the roster
\* that the venue lists (symbolToTick resolves it to its position in the row)
ReadMessage(e) ==
  /\ pc[e] = "read"
  /\ e \in DOMAIN stream
  /\ Total(msgSeq, 0) < MaxMsgs
  /\ \E j \in Slots, m \in stream[e] :
       /\ j < roster[e]
       /\ j \notin unlisted[e]
       /\ tickId' = [tickId EXCEPT ![e] = [slot |-> j, ticker |-> m]]
  /\ msgSeq' = [msgSeq EXCEPT ![e] = @ + 1]
  /\ pc' = [pc EXCEPT ![e] = Then("read")]
  /\ UNCHANGED <<roster, unlisted, stored, stream, main, sink, conn, trace, Tickers, PriceIndices, exchangeWeights, updateChan,
                 engine, cellSeq, chanSrc, recvSeq, lastScan, scen, bybit>>

\* a session that writes the cell into the row of the next exchange
NormalizeOtherRow(e) ==
  /\ pc[e] = "parse"
  /\ Tickers' = [Tickers EXCEPT ![(e + 1) % NUM_EXCHANGES][tickId[e].slot] =
                                   Parse(@, tickId[e].ticker)]
  /\ cellSeq' = [cellSeq EXCEPT ![e][tickId[e].slot] = msgSeq[e]]
  /\ scen' = ScenAfterWrite(scen, e, tickId[e].slot, tickId[e].ticker)
  /\ trace' = [trace EXCEPT ![e].writes = Append(@, [seq |-> msgSeq[e], slot |-> tickId[e].slot])]
  /\ conn' = [conn EXCEPT ![e].rowAtFault = NoRow]
  /\ pc' = [pc EXCEPT ![e] = Then("parse")]
  /\ UNCHANGED <<roster, unlisted, stored, stream, main, sink, PriceIndices, exchangeWeights, updateChan, tickId,
                 engine, msgSeq, chanSrc, recvSeq, lastScan, bybit>>

\* tickerConntainer[tickId].Parse(&ticker)
Normalize(e) ==
  /\ pc[e] = "parse"
  /\ Tickers' = [Tickers EXCEPT ![e][tickId[e].slot] = Parse(@, tickId[e].ticker)]
  /\ cellSeq' = [cellSeq EXCEPT ![e][tickId[e].slot] = msgSeq[e]]
  /\ scen' = ScenAfterWrite(scen, e, tickId[e].slot, tickId[e].ticker)
  /\ trace' = [trace EXCEPT ![e].writes = Append(@, [seq |-> msgSeq[e], slot |-> tickId[e].slot])]
  /\ conn' = [conn EXCEPT ![e].rowAtFault = NoRow]
  /\ pc' = [pc EXCEPT ![e] = Then("parse")]
  /\ UNCHANGED <<roster, unlisted, stored, stream, main, sink, PriceIndices, exchangeWeights, updateChan, tickId,
                 engine, msgSeq, chanSrc, recvSeq, lastScan, bybit>>

\* a send that does not wait for room in the channel
SendUnbounded(e) ==
  /\ pc[e] = "send"
  /\ updateChan' = Append(updateChan, tickId[e].slot)
  /\ chanSrc' = Append(chanSrc, [exch |-> e, seq |-> msgSeq[e]])
  /\ trace' = [trace EXCEPT ![e].sends = Append(@, [seq |-> msgSeq[e], slot |-> tickId[e].slot])]
  /\ pc' = [pc EXCEPT ![e] = Then("send")]
  /\ tickId' = [tickId EXCEPT ![e] = IF Then("send") = "read" THEN NoMsg ELSE @]
  /\ UNCHANGED <<roster, unlisted, stored, stream, main, sink, conn, Tickers, PriceIndices, exchangeWeights, engine,
                 msgSeq, cellSeq, recvSeq, lastScan, scen, bybit>>

\* updateChan <- tickId, blocking while the channel is full
Send(e) ==
  /\ pc[e] = "send"
  /\ Len(updateChan) < ChanCap
  /\ updateChan' = Append(updateChan, tickId[e].slot)
  /\ chanSrc' = Append(chanSrc, [exch |-> e, seq |-> msgSeq[e]])
  /\ trace' = [trace EXCEPT ![e].sends = Append(@, [seq |-> msgSeq[e], slot |-> tickId[e].slot])]
  /\ pc' = [pc EXCEPT ![e] = Then("send")]
  /\ tickId' = [tickId EXCEPT ![e] = IF Then("send") = "read" THEN NoMsg ELSE @]
  /\ UNCHANGED <<roster, unlisted, stored, stream, main, sink, conn, Tickers, PriceIndices, exchangeWeights, engine,
                 msgSeq, cellSeq, recvSeq, lastScan, scen, bybit>>

(***************************************************************************)
(* Index goroutine: for symIx := range updateChan { UpdatePriceIndex }     *)
(***************************************************************************)
Receive ==
  /\ engine.pc = "recv"
  /\ updateChan # <<>>
  /\ engine' = [pc |-> "update", symIx |-> Head(updateChan)]
  /\ updateChan' = Tail(updateChan)
  /\ chanSrc' = Tail(chanSrc)
  /\ recvSeq' = [recvSeq EXCEPT ![Head(chanSrc).exch][Head(updateChan)] = Head(chanSrc).seq]
  /\ trace' = [trace EXCEPT ![Head(chanSrc).exch].recvs =
                  Append(@, [seq |-> Head(chanSrc).seq, slot |-> Head(updateChan)])]
  /\ UNCHANGED <<roster, unlisted, stored, stream, main, sink, conn, Tickers, PriceIndices, exchangeWeights, pc, tickId,
                 msgSeq, cellSeq, lastScan, scen, bybit>>

\* a recompute that adapts the weights of every slot with the shares of one
UpdatePriceIndexEverySlot ==
  /\ engine.pc = "update"
  /\ LET symIx == engine.symIx
         acc == Scan(symIx)
     IN  /\ exchangeWeights' = [k \in Slots |-> SecondPass(exchangeWeights[k], acc)]
         /\ PriceIndices' = [PriceIndices EXCEPT ![symIx] = Finalize(@, acc)]
         /\ lastScan' = [symIx |-> symIx,
                         column |-> Column(symIx),
                         weights |-> exchangeWeights[symIx],
                         old |-> PriceIndices[symIx],
                         acc |-> acc,
                         seqs |-> [e \in Exchanges |-> cellSeq[e][symIx]],
                         recv |-> [e \in Exchanges |-> recvSeq[e][symIx]],
                         again |-> /\ lastScan.symIx = symIx
                                   /\ lastScan.column = Column(symIx)]
  /\ engine' = [pc |-> "recv", symIx |-> -1]
  /\ scen' = ScenAfterUpdate(scen)
  /\ UNCHANGED <<roster, unlisted, stored, stream, main, sink, conn, trace, Tickers, updateChan, pc, tickId, msgSeq, cellSeq,
                 chanSrc, recvSeq, bybit>>

UpdatePriceIndex ==
  /\ engine.pc = "update"
  /\ LET symIx == engine.symIx
         acc == Scan(symIx)
     IN  /\ exchangeWeights' = [exchangeWeights EXCEPT ![symIx] = SecondPass(@, acc)]
         /\ PriceIndices' = [PriceIndices EXCEPT ![symIx] = Finalize(@, acc)]
         /\ lastScan' = [symIx |-> symIx,
                         column |-> Column(symIx),
                         weights |-> exchangeWeights[symIx],
                         old |-> PriceIndices[symIx],
                         acc |-> acc,
                         seqs |-> [e \in Exchanges |-> cellSeq[e][symIx]],
                         recv |-> [e \in Exchanges |-> recvSeq[e][symIx]],
                         again |-> /\ lastScan.symIx = symIx
                                   /\ lastScan.column = Column(symIx)]
  /\ engine' = [pc |-> "recv", symIx |-> -1]
  /\ scen' = ScenAfterUpdate(scen)
  /\ UNCHANGED <<roster, unlisted, stored, stream, main, sink, conn, trace, Tickers, updateChan, pc, tickId, msgSeq, cellSeq,
                 chanSrc, recvSeq, bybit>>

(***************************************************************************)
(* Bybit: connectBybit and the prologue of connectBybitPartial             *)
(***************************************************************************)
MAX_SYMBOLS_PER_CONN == 10

\* longest Bybit symbol list
MaxBybitSymbols == 25

\* the symbol at position p of the Bybit row (positions from 0); the pairs
\* of a row are pairwise distinct
BybitSymbol(p) == <<"sym", p>>

BybitIdle == [n |-> 0, offset |-> 0, done |-> TRUE, shards |-> <<>>]

\* end of the shard that starts at offset
ShardEnd(offset, totalSymbols) ==
  IF offset + MAX_SYMBOLS_PER_CONN > totalSymbols THEN totalSymbols
  ELSE offset + MAX_SYMBOLS_PER_CONN

\* one iteration of the loop of connectBybit: go connectBybitPartial(
\* symbols[offset:end], tickerConntainer, shouldClose, offset)
SpawnShard ==
  /\ ~bybit.done
  /\ bybit.offset < bybit.n
  /\ bybit' = [bybit EXCEPT
       !.shards = Append(@, [symbols |-> [i \in 1 .. ShardEnd(bybit.offset, bybit.n) - bybit.offset |->
                                            BybitSymbol(bybit.offset + i - 1)],
                             offset |-> bybit.offset,
                             started |-> FALSE,
                             symbolToTick |-> <<>>,
                             pc |-> "start",
                             tickId |-> NoMsg,
                             wrote |-> {}]),
       !.offset = @ + MAX_SYMBOLS_PER_CONN]
  /\ UNCHANGED <<roster, unlisted, stored, stream, main, sink, conn, trace, Tickers, PriceIndices, exchangeWeights, updateChan, pc,
                 tickId, engine, msgSeq, cellSeq, chanSrc, recvSeq, lastScan, scen>>

\* the loop of connectBybit ends
SpawnDone ==
  /\ ~bybit.done
  /\ bybit.offset >= bybit.n
  /\ bybit' = [bybit EXCEPT !.done = TRUE]
  /\ UNCHANGED <<roster, unlisted, stored, stream, main, sink, conn, trace, Tickers, PriceIndices, exchangeWeights, updateChan, pc,
                 tickId, engine, msgSeq, cellSeq, chanSrc, recvSeq, lastScan, scen>>

\* a shard that numbers its symbols from 0
ShardSlotLocal(i, offset) == i

\* slot of the i-th symbol (from 0) of a shard
ShardSlot(i, offset) == i + offset

\* symbolToTick of a shard: for i, symbol := range symbols
BuildSymbolToTick(symbols, offset) ==
  [sym \in {symbols[i] : i \in 1 .. Len(symbols)} |->
     ShardSlot((CHOOSE i \in 1 .. Len(symbols) :
                  /\ symbols[i] = sym
                  /\ \A i2 \in 1 .. Len(symbols) : symbols[i2] = sym => i2 <= i) - 1,
               offset)]

\* a shard goroutine runs its prologue
ShardStart(k) ==
  /\ k \in 1 .. Len(bybit.shards)
  /\ ~bybit.shards[k].started
  /\ bybit' = [bybit EXCEPT
       !.shards[k].started = TRUE,
       !.shards[k].symbolToTick = BuildSymbolToTick(bybit.shards[k].symbols, bybit.shards[k].offset),
       !.shards[k].pc = "read"]
  /\ UNCHANGED <<roster, unlisted, stored, stream, main, sink, conn, trace, Tickers, PriceIndices, exchangeWeights, updateChan, pc,
                 tickId, engine, msgSeq, cellSeq, chanSrc, recvSeq, lastScan, scen>>

\* the read loop of connectBybitPartial: a frame of the first or of the
\* last symbol of the shard is read and symbolToTick resolves it; the last
\* symbol also sends a frame with an empty bid side
ShardRead(k) ==
  /\ k \in 1 .. Len(bybit.shards)
  /\ bybit.shards[k].pc = "read"
  /\ Total(msgSeq, 0) < MaxMsgs
  /\ \E i \in {1, Len(bybit.shards[k].symbols)}, m \in {Quote1, BookNoBid} :
       LET sym == bybit.shards[k].symbols[i]
       IN  /\ m = BookNoBid => i # 1
           /\ sym \in DOMAIN bybit.shards[k].symbolToTick
           /\ bybit' = [bybit EXCEPT
                !.shards[k].tickId = [slot |-> bybit.shards[k].symbolToTick[sym],
                                      ticker |-> m,
                                      seq |-> msgSeq[BYBIT] + 1],
                !.shards[k].pc = Then("read")]
  /\ msgSeq' = [msgSeq EXCEPT ![BYBIT] = @ + 1]
  /\ UNCHANGED <<roster, unlisted, stored, stream, main, sink, conn, trace, Tickers, PriceIndices, exchangeWeights, updateChan,
                 pc, tickId, engine, cellSeq, chanSrc, recvSeq, lastScan, scen>>

\* tickerConntainer[tickId].Parse(&ticker) of a shard; wrote: the slots the
\* goroutine has written.  Parse of a message with an empty side panics in
\* the goroutine of the shard, which ends the process.
ShardNormalize(k) ==
  /\ k \in 1 .. Len(bybit.shards)
  /\ bybit.shards[k].pc = "parse"
  /\ LET t == bybit.shards[k].tickId
     IN  IF IndexOutOfRange(t.ticker)
         THEN /\ bybit' = [bybit EXCEPT
                   !.done = TRUE,
                   !.shards = [x \in DOMAIN @ |->
                                 [@[x] EXCEPT !.pc = IF x = k THEN "panic" ELSE "exit"]]]
              /\ pc' = [x \in Exchanges |-> "exit"]
              /\ engine' = [pc |-> "exit", symIx |-> -1]
              /\ conn' = [x \in Exchanges |->
                            [conn[x] EXCEPT !.open = {}, !.pingers = {}, !.last = "panic",
                                            !.fatal = IF x = BYBIT THEN "parse" ELSE @]]
              /\ main' = [main EXCEPT !.pc = "exit", !.file = "closed", !.mapped = FALSE]
              /\ sink' = [sink EXCEPT !.pc = "exit"]
              /\ UNCHANGED <<Tickers, cellSeq, scen, trace>>
         ELSE /\ Tickers' = [Tickers EXCEPT ![BYBIT][t.slot] = Parse(@, t.ticker)]
              /\ cellSeq' = [cellSeq EXCEPT ![BYBIT][t.slot] = t.seq]
              /\ scen' = ScenAfterWrite(scen, BYBIT, t.slot, t.ticker)
              /\ trace' = [trace EXCEPT ![BYBIT].writes = Append(@, [seq |-> t.seq, slot |-> t.slot])]
              /\ bybit' = [bybit EXCEPT !.shards[k].wrote = @ \cup {t.slot},
                                        !.shards[k].pc = Then("parse")]
              /\ UNCHANGED <<main, sink, conn, pc, engine>>
  /\ UNCHANGED <<roster, unlisted, stored, stream, PriceIndices, exchangeWeights, updateChan, tickId,
                 msgSeq, chanSrc, recvSeq, lastScan>>

\* updateChan <- tickId of a shard
ShardSend(k) ==
  /\ k \in 1 .. Len(bybit.shards)
  /\ bybit.shards[k].pc = "send"
  /\ Len(updateChan) < ChanCap
  /\ LET t == bybit.shards[k].tickId
     IN  /\ updateChan' = Append(updateChan, t.slot)
         /\ chanSrc' = Append(chanSrc, [exch |-> BYBIT, seq |-> t.seq])
         /\ trace' = [trace EXCEPT ![BYBIT].sends = Append(@, [seq |-> t.seq, slot |-> t.slot])]
  /\ bybit' = [bybit EXCEPT !.shards[k].pc = Then("send"), !.shards[k].tickId = NoMsg]
  /\ UNCHANGED <<roster, unlisted, stored, stream, main, sink, conn, Tickers, PriceIndices, exchangeWeights, pc, tickId,
                 engine, msgSeq, cellSeq, recvSeq, lastScan, scen>>

(***************************************************************************)
(* Specifications                                                          *)
(***************************************************************************)
\* every entry of every roster row names a symbol
AllListed == [e \in Exchanges |-> {}]

\* the fields of an index slot, in the order the commit of UpdatePriceIndex
\* stores them
CommitOrder == <<"Val", "Cnt", "AskQtyTotal", "BidQtyTotal", "AskVWAP", "BidVWAP">>

\* no recompute has stored a field yet
NothingStored == [j \in Slots |-> [f \in {CommitOrder[i] : i \in DOMAIN CommitOrder} |-> 0]]

\* the state main leaves behind for the roster r and the file content
Started(r, file) ==
  /\ roster = r
  /\ Tickers = InitLattice(r, file)
  /\ PriceIndices = InitIndices(r, file)
  /\ exchangeWeights = initWeights
  /\ updateChan = <<>>
  /\ pc = [e \in Exchanges |-> "read"]
  /\ tickId = [e \in Exchanges |-> NoMsg]
  /\ engine = [pc |-> "recv", symIx |-> -1]
  /\ msgSeq = [e \in Exchanges |-> 0]
  /\ cellSeq = [e \in Exchanges |-> [j \in Slots |-> 0]]
  /\ chanSrc = <<>>
  /\ recvSeq = [e \in Exchanges |-> [j \in Slots |-> 0]]
  /\ lastScan = NoScan
  /\ scen = IF r = FullRoster THEN 0 ELSE 5
  /\ conn = [e \in Exchanges |-> StreamingOf(e)]
  /\ trace = [e \in Exchanges |-> NoTrace]
  /\ main = Serving
  /\ sink = SinkIdle

Runs ==
  {[roster |-> FullRoster, file |-> FreshFile,
    stream |-> [e \in Feeds |-> IF e = BINANCE THEN {Quote1, QuoteNoBid} ELSE {Quote1, Quote2}]],
   [roster |-> ShortRoster, file |-> FreshFile,
    stream |-> [e \in Feeds |-> IF e = BINANCE THEN {Quote1, QuoteEmpty} ELSE {Quote2, QuoteInfPrice}]],
   [roster |-> ShortRoster, file |-> PreviousRunFile,
    stream |-> [e \in Feeds |-> IF e = BINANCE THEN {Quote1, QuoteInfQty} ELSE {Quote2, QuoteNegQty}]],
   [roster |-> ShortRoster, file |-> FreshFile,
    stream |-> [e \in Feeds |-> IF e = BINANCE THEN {QuoteNoPrices} ELSE {Quote2}]]}

Init ==
  /\ \E run \in Runs :
       /\ Started(run.roster, run.file)
       /\ unlisted = AllListed
       /\ stored = NothingStored
       /\ stream = run.stream
  /\ bybit = BybitIdle

Next ==
  \/ \E e \in Exchanges : ReadMessage(e)
  \/ \E e \in Exchanges : Normalize(e)
  \/ \E e \in Exchanges : Send(e)
  \/ Receive
  \/ UpdatePriceIndex

Spec == Init /\ [][Next]_vars

\* the Bybit session started with a symbol list of any length
InitBybit ==
  /\ Started(FullRoster, FreshFile)
  /\ unlisted = AllListed
  /\ stored = NothingStored
  /\ stream = [e \in Feeds |-> {}]
  /\ \E n \in 0 .. MaxBybitSymbols :
       bybit = [n |-> n, offset |-> 0, done |-> FALSE, shards |-> <<>>]

NextBybit ==
  \/ SpawnShard
  \/ SpawnDone
  \/ \E k \in 1 .. MaxBybitSymbols : ShardStart(k)

SpecBybit == InitBybit /\ [][NextBybit]_vars

\* the shortest Bybit list that needs two shards
TwoShardSymbols == MAX_SYMBOLS_PER_CONN + 1

\* the slots of a lattice wide enough for this list
WideSlots == 0 .. TwoShardSymbols - 1

\* Bybit with this list and OKX, the other rows empty
WritersRoster ==
  [e \in Exchanges |-> IF e = BYBIT THEN TwoShardSymbols ELSE IF e = OKX THEN NumSlots ELSE 0]

\* main on a fresh file, every goroutine started: connectBybit is about to
\* spawn its shards, OKX is streaming
InitWriters ==
  /\ roster = WritersRoster
  /\ unlisted = AllListed
  /\ stored = NothingStored
  /\ stream = [x \in {OKX} |-> {Quote1}]
  /\ Tickers = [e \in Exchanges |-> [j \in WideSlots |->
                  IF j < WritersRoster[e] THEN NaNCell ELSE ZeroCell]]
  /\ PriceIndices = [j \in WideSlots |-> [ZeroIndex EXCEPT !.Val = NaN]]
  /\ exchangeWeights = [j \in WideSlots |-> [e \in Exchanges |-> DefaultWeights[e + 1]]]
  /\ updateChan = <<>>
  /\ pc = [e \in Exchanges |-> "read"]
  /\ tickId = [e \in Exchanges |-> NoMsg]
  /\ engine = [pc |-> "recv", symIx |-> -1]
  /\ msgSeq = [e \in Exchanges |-> 0]
  /\ cellSeq = [e \in Exchanges |-> [j \in WideSlots |-> 0]]
  /\ chanSrc = <<>>
  /\ recvSeq = [e \in Exchanges |-> [j \in WideSlots |-> 0]]
  /\ lastScan = NoScan
  /\ scen = 5
  /\ conn = [e \in Exchanges |-> StreamingOf(e)]
  /\ trace = [e \in Exchanges |-> NoTrace]
  /\ main = Serving
  /\ sink = SinkIdle
  /\ bybit = [n |-> TwoShardSymbols, offset |-> 0, done |-> FALSE, shards |-> <<>>]

NextWriters ==
  \/ SpawnShard
  \/ SpawnDone
  \/ \E k \in 1 .. MaxBybitSymbols : ShardStart(k)
  \/ \E k \in 1 .. MaxBybitSymbols : ShardRead(k)
  \/ \E k \in 1 .. MaxBybitSymbols : ShardNormalize(k)
  \/ \E k \in 1 .. MaxBybitSymbols : ShardSend(k)
  \/ \E e \in Exchanges : ReadMessage(e)
  \/ \E e \in Exchanges : Normalize(e)
  \/ \E e \in Exchanges : Send(e)
  \/ Receive
  \/ UpdatePriceIndex

SpecWriters == InitWriters /\ [][NextWriters]_vars

(***************************************************************************)
(* Connection life cycle of a session: RECONNECT, Dial, subscribe, the     *)
(* read error, the HTX ping, panic and return                              *)
(***************************************************************************)
\* read errors of all sessions together in one run
MaxFaults == 1

\* ping frames HTX sends in one run
MaxPings == 1
\* ticks of the persistence ticker that are followed
MaxTicks == 1

\* 2^53: up to here float64 holds every integer
TwoTo53 == <<992, 5474, 1992, 9007>>

\* ping values of the venue: 12345 and 2^53 + 1
PingValues == {<<2345, 1>>, <<993, 5474, 1992, 9007>>}

\* json.Unmarshal into map[string]interface{}: a JSON number becomes the
\* nearest float64 (ties to the even mantissa); for naturals below 2^54
Float64OfNat(n) ==
  IF NCmp(n, TwoTo53) <= 0 \/ NMod(n, 2) = 0 THEN Fin(FALSE, n, <<1>>)
  ELSE IF NMod(NAdd(n, <<1>>), 4) = 0 THEN Fin(FALSE, NAdd(n, <<1>>), <<1>>)
  ELSE Fin(FALSE, NSub(n, <<1>>), <<1>>)

\* json.Marshal of an integral float64 below 1e21: its decimal digits
EncodeNumber(x) == x.n

\* the sessions whose connection code is followed step by step
Sessions == {HTX, KUCOIN, OKX}

\* the first step after the label RECONNECT: connectKucoin requests a token
\* before it dials
RECONNECT(e) == IF e = KUCOIN THEN "bootstrap" ELSE "dial"

\* the call of session e that fails when the session panics at p
FatalCall(e, p) == IF p = "read" THEN "gzip" ELSE p

\* a session that resets its row to NaN when the read fails
ReadErrorResetsRow(e) ==
  /\ pc[e] = "read"
  /\ e \in DOMAIN stream
  /\ Total([x \in Exchanges |-> conn[x].faults], 0) < MaxFaults
  /\ pc' = [pc EXCEPT ![e] = RECONNECT(e)]
  /\ Tickers' = [Tickers EXCEPT ![e] = [j \in Slots |-> NaNCell]]
  /\ conn' = [conn EXCEPT ![e].faults = @ + 1, ![e].last = "fault",
                          ![e].rowAtFault = Tickers[e]]
  /\ UNCHANGED <<roster, unlisted, stored, stream, main, sink, trace, PriceIndices, exchangeWeights, updateChan,
                 tickId, engine, msgSeq, cellSeq, chanSrc, recvSeq, lastScan, scen, bybit>>

\* conn.ReadMessage returns an error: goto RECONNECT.  Nothing is closed
\* (the deferred close runs when the function returns) and nothing waits.
ReadError(e) ==
  /\ pc[e] = "read"
  /\ e \in DOMAIN stream
  /\ Total([x \in Exchanges |-> conn[x].faults], 0) < MaxFaults
  /\ pc' = [pc EXCEPT ![e] = RECONNECT(e)]
  /\ conn' = [conn EXCEPT ![e].faults = @ + 1, ![e].last = "fault",
                          ![e].rowAtFault = Tickers[e]]
  /\ UNCHANGED <<roster, unlisted, stored, stream, main, sink, trace, Tickers, PriceIndices, exchangeWeights, updateChan,
                 tickId, engine, msgSeq, cellSeq, chanSrc, recvSeq, lastScan, scen, bybit>>

\* RECONNECT: websocket.DefaultDialer.Dial succeeds; conn is the new socket
\* and one more deferred close is registered
Dial(e) ==
  /\ pc[e] = "dial"
  /\ pc' = [pc EXCEPT ![e] = "subscribe"]
  /\ conn' = [conn EXCEPT ![e].open = @ \cup {conn[e].dials + 1},
                          ![e].sock = conn[e].dials + 1,
                          ![e].dials = @ + 1,
                          ![e].prev = IF conn[e].last = "bootstrap" THEN @ ELSE conn[e].last,
                          ![e].last = "dial"]
  /\ UNCHANGED <<roster, unlisted, stored, stream, main, sink, trace, Tickers, PriceIndices, exchangeWeights, updateChan,
                 tickId, engine, msgSeq, cellSeq, chanSrc, recvSeq, lastScan, scen, bybit>>

\* connectKucoin: http.Post for the token is answered with code "200000"
Bootstrap(e) ==
  /\ pc[e] = "bootstrap"
  /\ pc' = [pc EXCEPT ![e] = "dial"]
  /\ conn' = [conn EXCEPT ![e].prev = conn[e].last, ![e].last = "bootstrap"]
  /\ UNCHANGED <<roster, unlisted, stored, stream, main, sink, trace, Tickers, PriceIndices, exchangeWeights, updateChan,
                 tickId, engine, msgSeq, cellSeq, chanSrc, recvSeq, lastScan, scen, bybit>>

\* conn.WriteJSON(subscribeMsg) succeeds; the read loop starts (connectKucoin
\* starts a ping goroutine on the new socket first)
Subscribe(e) ==
  /\ pc[e] = "subscribe"
  /\ pc' = [pc EXCEPT ![e] = "read"]
  /\ conn' = [conn EXCEPT ![e].last = "subscribe",
                          ![e].pingers = IF e = KUCOIN THEN @ \cup {conn[e].sock} ELSE @]
  /\ UNCHANGED <<roster, unlisted, stored, stream, main, sink, trace, Tickers, PriceIndices, exchangeWeights, updateChan,
                 tickId, engine, msgSeq, cellSeq, chanSrc, recvSeq, lastScan, scen, bybit>>

\* connectHTX: a frame is read and decompressed, and its JSON object has
\* the key "ping"
ReadPing(e) ==
  /\ e = HTX
  /\ pc[e] = "read"
  /\ e \in DOMAIN stream
  /\ Len(conn[e].pings) < MaxPings
  /\ \E n \in PingValues :
       conn' = [conn EXCEPT ![e].ping = [sock |-> conn[e].sock, val |-> Float64OfNat(n),
                                         row |-> Tickers[e], trace |-> trace[e]],
                            ![e].pings = Append(@, [sock |-> conn[e].sock, val |-> n]),
                            ![e].last = "ping"]
  /\ pc' = [pc EXCEPT ![e] = "pong"]
  /\ UNCHANGED <<roster, unlisted, stored, stream, main, sink, trace, Tickers, PriceIndices, exchangeWeights, updateChan,
                 tickId, engine, msgSeq, cellSeq, chanSrc, recvSeq, lastScan, scen, bybit>>

\* conn.WriteJSON(map[string]interface{}{"pong": pingVal}); continue
Pong(e) ==
  /\ pc[e] = "pong"
  /\ conn' = [conn EXCEPT ![e].pongs =
                            Append(@, [sock |-> conn[e].sock,
                                       val |-> EncodeNumber(conn[e].ping.val),
                                       quiet |-> /\ Tickers[e] = conn[e].ping.row
                                                 /\ trace[e].writes = conn[e].ping.trace.writes
                                                 /\ trace[e].sends = conn[e].ping.trace.sends]),
                          ![e].ping = NoPing,
                          ![e].last = "pong"]
  /\ pc' = [pc EXCEPT ![e] = "read"]
  /\ UNCHANGED <<roster, unlisted, stored, stream, main, sink, trace, Tickers, PriceIndices, exchangeWeights, updateChan,
                 tickId, engine, msgSeq, cellSeq, chanSrc, recvSeq, lastScan, scen, bybit>>

\* the ping goroutine of connectKucoin on a socket the session has left:
\* conn.WriteJSON(pingMsg) fails and the goroutine returns
PingLoopEnds(e) ==
  /\ \E so \in conn[e].pingers \ {conn[e].sock} :
       conn' = [conn EXCEPT ![e].pingers = @ \ {so}]
  /\ UNCHANGED <<roster, unlisted, stored, stream, main, sink, trace, Tickers, PriceIndices, exchangeWeights, updateChan,
                 pc, tickId, engine, msgSeq, cellSeq, chanSrc, recvSeq, lastScan, scen, bybit>>

\* panic(err): the token request of Kucoin fails or is answered with another
\* code, Dial fails, a write of the subscription or of the pong fails, or an
\* HTX frame is no gzip stream.  The process ends, and with it every
\* goroutine, every socket and the mapping.
Panic(e) ==
  /\ e \in DOMAIN stream
  /\ \/ pc[e] \in {"bootstrap", "dial", "subscribe", "pong"}
     \/ e = HTX /\ pc[e] = "read"
  /\ pc' = [x \in Exchanges |-> "exit"]
  /\ engine' = [pc |-> "exit", symIx |-> -1]
  /\ conn' = [x \in Exchanges |->
                [conn[x] EXCEPT !.open = {}, !.pingers = {}, !.last = "panic",
                                !.fatal = IF x = e THEN FatalCall(e, pc[e]) ELSE @]]
  /\ main' = [main EXCEPT !.pc = "exit", !.file = "closed", !.mapped = FALSE]
  /\ sink' = [sink EXCEPT !.pc = "exit"]
  /\ UNCHANGED <<roster, unlisted, stored, stream, trace, Tickers, PriceIndices, exchangeWeights, updateChan,
                 tickId, msgSeq, cellSeq, chanSrc, recvSeq, lastScan, scen, bybit>>

\* the loop finds *shouldClose set and the function returns: the deferred
\* closes run, one for every socket the session has dialed
Return(e) ==
  /\ pc[e] = "read"
  /\ e \in DOMAIN stream
  /\ main.shouldClose
  /\ pc' = [pc EXCEPT ![e] = "exit"]
  /\ conn' = [conn EXCEPT ![e].open = {}, ![e].last = "return"]
  /\ UNCHANGED <<roster, unlisted, stored, stream, main, sink, trace, Tickers, PriceIndices, exchangeWeights, updateChan,
                 tickId, engine, msgSeq, cellSeq, chanSrc, recvSeq, lastScan, scen, bybit>>

\* main: <-sigint returns and shouldClose = true
Interrupt ==
  /\ main.pc = "serve"
  /\ main' = [main EXCEPT !.pc = "return", !.shouldClose = TRUE]
  /\ UNCHANGED <<roster, unlisted, stored, stream, sink, conn, trace, Tickers, PriceIndices, exchangeWeights,
                 updateChan, pc, tickId, engine, msgSeq, cellSeq, chanSrc, recvSeq,
                 lastScan, scen, bybit>>

\* main returns: the deferred w.Close() closes the file; writer.mappedData
\* was never assigned, so Close finds it nil and does not call Munmap
WriterClose ==
  /\ main.pc = "return"
  /\ main' = [main EXCEPT !.pc = "closed", !.file = "closed"]
  /\ UNCHANGED <<roster, unlisted, stored, stream, sink, conn, trace, Tickers, PriceIndices, exchangeWeights,
                 updateChan, pc, tickId, engine, msgSeq, cellSeq, chanSrc, recvSeq,
                 lastScan, scen, bybit>>

\* main has returned: the process ends, and with it every goroutine that
\* is still running, its sockets and the mapping
ProcessExit ==
  /\ main.pc = "closed"
  /\ main' = [main EXCEPT !.pc = "exit", !.mapped = FALSE]
  /\ pc' = [x \in Exchanges |-> "exit"]
  /\ engine' = [pc |-> "exit", symIx |-> -1]
  /\ sink' = [sink EXCEPT !.pc = "exit"]
  /\ conn' = [x \in Exchanges |->
                [conn[x] EXCEPT !.open = {}, !.pingers = {},
                                !.last = IF pc[x] = "exit" THEN @ ELSE "killed"]]
  /\ UNCHANGED <<roster, unlisted, stored, stream, trace, Tickers, PriceIndices, exchangeWeights, updateChan,
                 tickId, msgSeq, cellSeq, chanSrc, recvSeq, lastScan, scen, bybit>>

\* every exchange lists one symbol
OneSymbolRoster == [e \in Exchanges |-> 1]

\* one of the sessions streaming, every exchange in the roster
InitSession ==
  /\ Started(OneSymbolRoster, FreshFile)
  /\ unlisted = AllListed
  /\ stored = NothingStored
  /\ \E e \in Sessions : stream = [x \in {e} |-> {Quote1}]
  /\ bybit = BybitIdle

NextSession ==
  \/ \E e \in Exchanges : ReadMessage(e)
  \/ \E e \in Exchanges : Normalize(e)
  \/ \E e \in Exchanges : Send(e)
  \/ Receive
  \/ UpdatePriceIndex
  \/ \E e \in Exchanges : ReadError(e)
  \/ \E e \in Exchanges : Bootstrap(e)
  \/ \E e \in Exchanges : Dial(e)
  \/ \E e \in Exchanges : Subscribe(e)
  \/ \E e \in Exchanges : PingLoopEnds(e)
  \/ \E e \in Exchanges : ReadPing(e)
  \/ \E e \in Exchanges : Pong(e)
  \/ \E e \in Exchanges : Panic(e)

SpecSession == InitSession /\ [][NextSession]_vars

\* the sessions and the index goroutine while main is interrupted, returns
\* and the process ends
NextShutdown ==
  \/ \E e \in Exchanges : ReadMessage(e)
  \/ \E e \in Exchanges : Normalize(e)
  \/ \E e \in Exchanges : Send(e)
  \/ Receive
  \/ UpdatePriceIndex
  \/ Interrupt
  \/ \E e \in Exchanges : Return(e)
  \/ WriterClose
  \/ ProcessExit

SpecShutdown == InitSession /\ [][NextShutdown]_vars

(***************************************************************************)
(* A roster with an empty entry                                            *)
(***************************************************************************)
\* symbolToTick[""] of session e: the loop over the symbols stores every
\* entry under its spelling, the empty one included, a later position
\* replacing an earlier one
RECURSIVE LastOf(_, _)
LastOf(S, j) == IF j \in S THEN j ELSE LastOf(S, j - 1)
EmptyKeySlot(e) == LastOf(unlisted[e], roster[e] - 1)

\* conn.ReadMessage and json.Unmarshal of a control message: its symbol
\* field is the empty string, and the loop goes on to Parse and send if
\* symbolToTick has that key, else to the next frame
ReadControl(e) ==
  /\ pc[e] = "read"
  /\ e \in DOMAIN stream
  /\ Total(msgSeq, 0) < MaxMsgs
  /\ IF unlisted[e] # {}
     THEN /\ tickId' = [tickId EXCEPT ![e] = [slot |-> EmptyKeySlot(e), ticker |-> Ack]]
          /\ msgSeq' = [msgSeq EXCEPT ![e] = @ + 1]
          /\ pc' = [pc EXCEPT ![e] = Then("read")]
     ELSE UNCHANGED <<tickId, msgSeq, pc>>
  /\ UNCHANGED <<roster, unlisted, stored, stream, main, sink, conn, trace, Tickers, PriceIndices,
                 exchangeWeights, updateChan, engine, cellSeq, chanSrc, recvSeq, lastScan,
                 scen, bybit>>

\* Binance lists every pair, Gateio does not list the last one
GapRoster == [e \in Exchanges |-> IF e \in {BINANCE, GATEIO} THEN NumSlots ELSE 0]
GapUnlisted == [e \in Exchanges |-> IF e = GATEIO THEN {NumSlots - 1} ELSE {}]

InitGap ==
  /\ Started(GapRoster, FreshFile)
  /\ unlisted = GapUnlisted
  /\ stored = NothingStored
  /\ stream = [e \in {BINANCE, GATEIO} |-> IF e = BINANCE THEN {Quote1} ELSE {QuoteNegQty, QuoteHugeQty}]
  /\ bybit = BybitIdle

NextGap ==
  \/ \E e \in Exchanges : ReadMessage(e)
  \/ \E e \in Exchanges : ReadControl(e)
  \/ \E e \in Exchanges : Normalize(e)
  \/ \E e \in Exchanges : Send(e)
  \/ Receive
  \/ UpdatePriceIndex

SpecGap == InitGap /\ [][NextGap]_vars

(***************************************************************************)
(* The persistence goroutine of saveToDb                                   *)
(***************************************************************************)
\* len(normalizedSymbols): the symbols of row 0 of the roster
NormalizedSymbols == roster[0]

\* case <-tickMs.C: the ticker fires and the loop over the symbols starts
TickStart ==
  /\ sink.pc = "wait"
  /\ sink.ticks < MaxTicks
  /\ sink' = [sink EXCEPT !.pc = IF NormalizedSymbols = 0 THEN "wait" ELSE "loop",
                          !.symIx = 0,
                          !.ticks = @ + 1]
  /\ UNCHANGED <<roster, unlisted, stored, stream, main, conn, trace, Tickers, PriceIndices, exchangeWeights,
                 updateChan, pc, tickId, engine, msgSeq, cellSeq, chanSrc, recvSeq, lastScan,
                 scen, bybit>>

\* one iteration of the loop: priceIdx := shmData.PriceIndices[symIx] and,
\* if !math.IsNaN(priceIdx.Val), dbWriter.InsertPriceIndex(symbol, ...).
\* seen: the slots read and the val found; rows: the records inserted; by:
\* the recomputes whose stores the copied fields hold
SinkSlot ==
  /\ sink.pc = "loop"
  /\ sink.symIx < NormalizedSymbols
  /\ LET priceIdx == PriceIndices[sink.symIx]
         read == [tick |-> sink.ticks, symbol |-> sink.symIx, val |-> priceIdx.Val,
                  by |-> stored[sink.symIx]]
     IN  sink' = [sink EXCEPT
           !.seen = Append(@, read),
           !.rows = IF ~IsNaN(priceIdx.Val) THEN Append(@, read) ELSE @,
           !.symIx = @ + 1,
           !.pc = IF sink.symIx + 1 < NormalizedSymbols THEN "loop" ELSE "wait"]
  /\ UNCHANGED <<roster, unlisted, stored, stream, main, conn, trace, Tickers, PriceIndices, exchangeWeights,
                 updateChan, pc, tickId, engine, msgSeq, cellSeq, chanSrc, recvSeq, lastScan,
                 scen, bybit>>

\* a roster of one symbol for Binance and for OKX
SinkRoster == [e \in Exchanges |-> IF e \in {BINANCE, OKX} THEN 1 ELSE 0]

InitSink ==
  /\ Started(SinkRoster, FreshFile)
  /\ unlisted = AllListed
  /\ stored = NothingStored
  /\ stream = [e \in Feeds |-> IF e = BINANCE THEN {Quote1} ELSE {QuoteInfPrice}]
  /\ bybit = BybitIdle

NextSink ==
  \/ \E e \in Exchanges : ReadMessage(e)
  \/ \E e \in Exchanges : Normalize(e)
  \/ \E e \in Exchanges : Send(e)
  \/ Receive
  \/ UpdatePriceIndex
  \/ TickStart
  \/ SinkSlot

SpecSink == InitSink /\ [][NextSink]_vars

(***************************************************************************)
(* The goroutines store by store.  No lock, atomic or channel orders the   *)
(* stores of a session into a cell, the copy the engine takes of the cell, *)
(* the stores of the commit and the copy the sink takes of the index slot: *)
(* each store is a step of its own and a copy falls between any two.       *)
(***************************************************************************)
\* Parse: t.Bid = bid
StoreBid(e) ==
  /\ pc[e] = "parse"
  /\ Tickers' = [Tickers EXCEPT ![e][tickId[e].slot].Bid = ParseFloat(tickId[e].ticker.b)]
  /\ pc' = [pc EXCEPT ![e] = "ask"]
  /\ UNCHANGED <<roster, unlisted, stored, stream, main, sink, conn, trace, PriceIndices,
                 exchangeWeights, updateChan, tickId, engine, msgSeq, cellSeq, chanSrc,
                 recvSeq, lastScan, scen, bybit>>

\* Parse: t.Ask = ask, and the quantities; the cell now holds the message
StoreAsk(e) ==
  /\ pc[e] = "ask"
  /\ Tickers' = [Tickers EXCEPT ![e][tickId[e].slot] = Parse(@, tickId[e].ticker)]
  /\ cellSeq' = [cellSeq EXCEPT ![e][tickId[e].slot] = msgSeq[e]]
  /\ scen' = ScenAfterWrite(scen, e, tickId[e].slot, tickId[e].ticker)
  /\ trace' = [trace EXCEPT ![e].writes = Append(@, [seq |-> msgSeq[e], slot |-> tickId[e].slot])]
  /\ conn' = [conn EXCEPT ![e].rowAtFault = NoRow]
  /\ pc' = [pc EXCEPT ![e] = Then("parse")]
  /\ UNCHANGED <<roster, unlisted, stored, stream, main, sink, PriceIndices, exchangeWeights,
                 updateChan, tickId, engine, msgSeq, chanSrc, recvSeq, lastScan, bybit>>

\* the number of the latest recompute that has stored a field
LatestStored ==
  CHOOSE n \in {stored[j][f] : j \in Slots, f \in DOMAIN stored[0]} :
    \A j \in Slots, f \in DOMAIN stored[0] : stored[j][f] <= n

\* UpdatePriceIndex up to the test of totalWeight: the two passes
ScanColumn ==
  /\ engine.pc = "update"
  /\ LET symIx == engine.symIx
         acc == Scan(symIx)
     IN  /\ exchangeWeights' = [exchangeWeights EXCEPT ![symIx] = SecondPass(@, acc)]
         /\ lastScan' = [symIx |-> symIx,
                         column |-> Column(symIx),
                         weights |-> exchangeWeights[symIx],
                         old |-> PriceIndices[symIx],
                         acc |-> acc,
                         seqs |-> [e \in Exchanges |-> cellSeq[e][symIx]],
                         recv |-> [e \in Exchanges |-> recvSeq[e][symIx]],
                         again |-> /\ lastScan.symIx = symIx
                                   /\ lastScan.column = Column(symIx)]
  /\ engine' = [pc |-> "store", symIx |-> engine.symIx, next |-> 1, no |-> LatestStored + 1]
  /\ scen' = ScenAfterUpdate(scen)
  /\ UNCHANGED <<roster, unlisted, stored, stream, main, sink, conn, trace, Tickers, PriceIndices,
                 updateChan, pc, tickId, msgSeq, cellSeq, chanSrc, recvSeq, bybit>>

\* one store of the commit: s.PriceIndices[symIx].<field> = ...; the branch
\* totalWeight > 0 has six of them, the other branch the store of Val only
StoreField ==
  /\ engine.pc = "store"
  /\ LET f == CommitOrder[engine.next]
         new == Finalize(PriceIndices[engine.symIx], lastScan.acc)
     IN  /\ PriceIndices' = [PriceIndices EXCEPT ![engine.symIx][f] = new[f]]
         /\ stored' = [stored EXCEPT ![engine.symIx][f] = engine.no]
  /\ engine' = IF FPos(lastScan.acc.totalWeight) /\ engine.next < Len(CommitOrder)
               THEN [engine EXCEPT !.next = @ + 1]
               ELSE [pc |-> "recv", symIx |-> -1]
  /\ UNCHANGED <<roster, unlisted, stream, main, sink, conn, trace, Tickers, exchangeWeights,
                 updateChan, pc, tickId, msgSeq, cellSeq, chanSrc, recvSeq, lastScan, scen,
                 bybit>>

\* one symbol, quoted by Binance
RaceRoster == [e \in Exchanges |-> IF e = BINANCE THEN 1 ELSE 0]

InitRace ==
  /\ Started(RaceRoster, FreshFile)
  /\ unlisted = AllListed
  /\ stored = NothingStored
  /\ stream = [e \in {BINANCE} |-> {Quote1, Quote2}]
  /\ bybit = BybitIdle

NextRace ==
  \/ \E e \in Exchanges : ReadMessage(e)
  \/ \E e \in Exchanges : StoreBid(e)
  \/ \E e \in Exchanges : StoreAsk(e)
  \/ \E e \in Exchanges : Send(e)
  \/ Receive
  \/ ScanColumn
  \/ StoreField
  \/ TickStart
  \/ SinkSlot

SpecRace == InitRace /\ [][NextRace]_vars

(***************************************************************************)
(* The engine under fair scheduling: the goroutines of the engine and of   *)
(* the sessions are always scheduled again, the venues send as they like   *)
(***************************************************************************)
\* one symbol, quoted by Binance and by HTX
LiveRoster == [e \in Exchanges |-> IF e \in {BINANCE, HTX} THEN 1 ELSE 0]

InitLive ==
  /\ Started(LiveRoster, FreshFile)
  /\ unlisted = AllListed
  /\ stored = NothingStored
  /\ stream = [e \in {BINANCE, HTX} |-> {Quote1, Quote2}]
  /\ bybit = BybitIdle

NextLive ==
  \/ \E e \in Exchanges : ReadMessage(e)
  \/ \E e \in Exchanges : Normalize(e)
  \/ \E e \in Exchanges : Send(e)
  \/ \E e \in Exchanges : Panic(e)
  \/ Receive
  \/ UpdatePriceIndex

\* a goroutine that can take its next step takes it: the receive and the
\* recompute of the engine, the write and the send of a session
SpecLive ==
  /\ InitLive
  /\ [][NextLive]_vars
  /\ WF_vars(Receive)
  /\ WF_vars(UpdatePriceIndex)
  /\ \A e \in Exchanges : WF_vars(Normalize(e)) /\ WF_vars(Send(e))

(***************************************************************************)
(* Properties of the index engine                                          *)
(***************************************************************************)
\* a recompute has happened; the properties below speak of the latest one
Scanned == lastScan.symIx # -1

\* the index slot the latest recompute wrote
Index == PriceIndices[lastScan.symIx]

\* the latest recompute took the branch totalWeight > 0
Committed == Scanned /\ FPos(lastScan.acc.totalWeight)

\* a valid row as the specification words it: four finite fields and a
\* positive total quantity
Valid(ticker) ==
  /\ IsFinite(ticker.Bid)
  /\ IsFinite(ticker.Ask)
  /\ IsFinite(ticker.BidQty)
  /\ IsFinite(ticker.AskQty)
  /\ FPos(FAdd(ticker.BidQty, ticker.AskQty))

\* the valid rows of the column the latest recompute scanned
ValidRows == {e \in Exchanges : Valid(lastScan.column[e])}

\* the rows that entered the sums of the latest recompute
ContributingRows ==
  {e \in Exchanges : HasQuote(lastScan.column[e]) /\ FPos(totalQty(lastScan.column[e]))}

\* the sum of terms[e] over the exchanges e .. NUM_EXCHANGES-1 that are in rows
RECURSIVE SumOver(_, _, _)
SumOver(terms, rows, e) ==
  IF e >= NUM_EXCHANGES THEN Lit(0, 1)
  ELSE IF e \in rows THEN FAdd(terms[e], SumOver(terms, rows, e + 1))
  ELSE SumOver(terms, rows, e + 1)

\* C1: immediately after every recompute of a column in which at least one
\* row had four finite fields and bid_qty + ask_qty > 0, the val of the
\* index slot is finite.  The code does not keep this.
C1_ValFiniteWhenValidRow ==
  (Scanned /\ ValidRows # {}) => IsFinite(Index.Val)

\* C2: immediately after every recompute of a column in which no row had
\* four finite fields and bid_qty + ask_qty > 0, the val of the index slot
\* is NaN.  The code does not keep this.
C2_ValNaNWhenNoValidRow ==
  (Scanned /\ ValidRows = {}) => IsNaN(Index.Val)

\* C3: after every recompute, count equals the number of rows that had four
\* finite fields and bid_qty + ask_qty > 0 at that recompute.  The code does
\* not keep this.
C3_CountIsValidRows ==
  Scanned => Index.Cnt = Cardinality(ValidRows)

\* C4: after every recompute that commits, bid_vwap * bid_qty_total is the
\* sum of bid_qty_i * bid_i over the contributing rows and ask_vwap *
\* ask_qty_total the sum of ask_qty_i * ask_i, the totals being the sums of
\* the contributing rows' quantities.  The code does not keep this.
C4_VwapTimesTotalIsNotional ==
  Committed =>
    LET col == lastScan.column
        bidQty == SumOver([e \in Exchanges |-> col[e].BidQty], ContributingRows, 0)
        askQty == SumOver([e \in Exchanges |-> col[e].AskQty], ContributingRows, 0)
        bidNot == SumOver([e \in Exchanges |-> FMul(col[e].BidQty, col[e].Bid)],
                          ContributingRows, 0)
        askNot == SumOver([e \in Exchanges |-> FMul(col[e].AskQty, col[e].Ask)],
                          ContributingRows, 0)
    IN  /\ FEq(Index.BidQtyTotal, bidQty)
        /\ FEq(Index.AskQtyTotal, askQty)
        /\ FEq(FMul(Index.BidVWAP, Index.BidQtyTotal), bidNot)
        /\ FEq(FMul(Index.AskVWAP, Index.AskQtyTotal), askNot)

\* C5: in every reachable state every weight is finite and not negative.
\* The code does not keep this.
C5_WeightsFiniteNonNegative ==
  \A j \in Slots, e \in Exchanges :
    IsFinite(exchangeWeights[j][e]) /\ ~FNegative(exchangeWeights[j][e])

\* C6: once the engine has received the slot a session sent for its message
\* m, the cell of that session and slot holds the values of m or of a later
\* message of the session, in every later state and in particular in every
\* scan of the engine: the recompute never reads values older than m.
C6_ReadsAfterReceiveSeeTheWrite ==
  /\ \A e \in Exchanges, j \in Slots : recvSeq[e][j] <= cellSeq[e][j]
  /\ Scanned => \A e \in Exchanges : lastScan.recv[e] <= lastScan.seqs[e]

\* the engine received the slot of a session's first message and its scan
\* read the values of the session's second message
C6_ScanReadLaterMessage ==
  /\ Scanned
  /\ \E e \in Feeds : lastScan.recv[e] = 1 /\ lastScan.seqs[e] = 2

\* C7: a recompute that commits on a column with exactly one valid row
\* (four finite fields, bid_qty + ask_qty > 0) writes that row's mid-price
\* (bid + ask) / 2 as val.  The code does not keep this.
C7_SingleValidRowGivesItsMid ==
  (Committed /\ Cardinality(ValidRows) = 1) =>
    \A e \in ValidRows :
      FEq(Index.Val, FDiv(FAdd(lastScan.column[e].Bid, lastScan.column[e].Ask), Lit(2, 1)))

\* the mid-prices of the contributing rows of the latest recompute are all
\* equal to p
AllMidsEqual(p) ==
  \A e \in ContributingRows : FEq(midPrice(lastScan.column[e]), p)

C9_BothUpdatesProcessed == scen = 4 /\ lastScan.symIx = 0

\* C9 as stated: at the end of the scenario val is
\* (60000.5*0.40 + 60002.5*0.05)/0.45, bid_vwap 60001, ask_vwap 60002 and
\* count 2.  The code does not produce this val.
C9_ValWithDefaultWeights ==
  scen = 4 =>
    /\ FEq(PriceIndices[0].Val,
           FDiv(FAdd(FMul(Lit(120001, 2), Lit(40, 100)), FMul(Lit(120005, 2), Lit(5, 100))),
                Lit(45, 100)))
    /\ FEq(PriceIndices[0].BidVWAP, Lit(60001, 1))
    /\ FEq(PriceIndices[0].AskVWAP, Lit(60002, 1))
    /\ PriceIndices[0].Cnt = 2

\* C9 amended: at the end of the scenario the weight of Binance is 0.406
\* (adapted by the first recompute), val is
\* (60000.5*0.406 + 60002.5*0.05)/0.456, bid_vwap 60001, ask_vwap 60002 and
\* count 2.
C9_ValWithAdaptedWeight ==
  scen = 4 =>
    /\ FEq(PriceIndices[0].Val,
           FDiv(FAdd(FMul(Lit(120001, 2), Lit(406, 1000)), FMul(Lit(120005, 2), Lit(5, 100))),
                Lit(456, 1000)))
    /\ FEq(PriceIndices[0].BidVWAP, Lit(60001, 1))
    /\ FEq(PriceIndices[0].AskVWAP, Lit(60002, 1))
    /\ PriceIndices[0].Cnt = 2

(***************************************************************************)
(* Properties of the Bybit session                                         *)
(***************************************************************************)
\* the slots a started shard routes to
ShardSlots(sh) == {sh.symbolToTick[sh.symbols[i]] : i \in 1 .. Len(sh.symbols)}

AllShardsStarted == \A k \in 1 .. Len(bybit.shards) : bybit.shards[k].started

Front(q) == SubSeq(q, 1, Len(q) - 1)

\* the queued slots with their senders, oldest first
Queued ==
  [i \in 1 .. Len(updateChan) |->
     [exch |-> chanSrc[i].exch, seq |-> chanSrc[i].seq, slot |-> updateChan[i]]]

\* the messages of session e whose slots wait in the channel, oldest first
RECURSIVE InChannel(_, _)
InChannel(e, i) ==
  IF i > Len(updateChan) THEN <<>>
  ELSE IF Queued[i].exch = e
       THEN <<[seq |-> Queued[i].seq, slot |-> Queued[i].slot]>> \o InChannel(e, i + 1)
       ELSE InChannel(e, i + 1)

C13_ChannelBoundedNothingLost ==
  /\ Len(updateChan) <= ChanCap
  /\ \A e \in Exchanges : trace[e].sends = trace[e].recvs \o InChannel(e, 1)

\* a session has written its cell and waits with the slot at a full channel
\* that holds the slot of the other session
C13_SenderBlockedAtFullChannel ==
  /\ Len(updateChan) = ChanCap
  /\ \E e \in Feeds : pc[e] = "send" /\ InChannel(e, 1) = <<>>

\* the messages of q are numbered 1, 2, ... in the order of arrival
InArrivalOrder(q) == \A i \in 1 .. Len(q) : q[i].seq = i

\* C14: within a session the lattice writes, the sends and the receipts by
\* the engine each follow the order in which the messages arrived, and a
\* message is received only after it was sent and sent only after it was
\* written.
C14_SessionOrderPreserved ==
  \A e \in Exchanges :
    /\ InArrivalOrder(trace[e].writes)
    /\ InArrivalOrder(trace[e].sends)
    /\ InArrivalOrder(trace[e].recvs)
    /\ Len(trace[e].recvs) <= Len(trace[e].sends)
    /\ Len(trace[e].sends) <= Len(trace[e].writes)
    /\ Len(trace[e].writes) <= msgSeq[e]

\* the engine has received two messages of one session
C14_TwoMessagesReceived ==
  \E e \in Feeds : Len(trace[e].recvs) = 2

(***************************************************************************)
(* Algebraic properties of the recompute                                   *)
(***************************************************************************)
\* two float64 values with the same bytes
SameFloat(x, y) == (IsNaN(x) /\ IsNaN(y)) \/ FEq(x, y)

SameIndex(a, b) ==
  /\ SameFloat(a.Val, b.Val)
  /\ a.Cnt = b.Cnt
  /\ SameFloat(a.BidVWAP, b.BidVWAP)
  /\ SameFloat(a.AskVWAP, b.AskVWAP)
  /\ SameFloat(a.BidQtyTotal, b.BidQtyTotal)
  /\ SameFloat(a.AskQtyTotal, b.AskQtyTotal)

\* every field of the index slot but val
SameDiagnostics(a, b) ==
  /\ a.Cnt = b.Cnt
  /\ SameFloat(a.BidVWAP, b.BidVWAP)
  /\ SameFloat(a.AskVWAP, b.AskVWAP)
  /\ SameFloat(a.BidQtyTotal, b.BidQtyTotal)
  /\ SameFloat(a.AskQtyTotal, b.AskQtyTotal)

\* C16 as the specification states it: a recompute of slot j that follows
\* a recompute of slot j with no change of the column in between leaves
\* every field of the index slot as the first recompute left it.  The
\* weights the first recompute adapted make val move.
C16_RecomputeIdempotent ==
  (Scanned /\ lastScan.again) => SameIndex(Index, lastScan.old)

\* C16, amended: such a second recompute leaves count, both VWAPs and both
\* quantity totals of the index slot as the first recompute left them (val
\* is computed anew from the weights the first recompute adapted).
C16_RecomputeKeepsDiagnostics ==
  (Scanned /\ lastScan.again) => SameDiagnostics(Index, lastScan.old)

\* a second recompute of an unchanged column in which two rows of different
\* mid-price contribute, and val has moved
C16_SecondRecomputeMovedVal ==
  /\ Scanned
  /\ lastScan.again
  /\ \E e1, e2 \in ContributingRows :
       ~FEq(midPrice(lastScan.column[e1]), midPrice(lastScan.column[e2]))
  /\ IsFinite(Index.Val)
  /\ IsFinite(lastScan.old.Val)
  /\ ~FEq(Index.Val, lastScan.old.Val)

\* the diagnostics of the index slot after Binance (60000, 60001, 1, 1) and
\* OKX (60002, 60003, 1, 1) were written and processed on slot 0 from a cold
\* start, with val as the first order leaves it
IndexAfterBinanceThenOKX ==
  [Val |-> FDiv(FAdd(FMul(Lit(120001, 2), Lit(406, 1000)), FMul(Lit(120005, 2), Lit(5, 100))),
                Lit(456, 1000)),
   Cnt |-> 2,
   BidVWAP |-> Lit(60001, 1), BidQtyTotal |-> Lit(2, 1),
   AskVWAP |-> Lit(60002, 1), AskQtyTotal |-> Lit(2, 1)]

\* val after the same two updates with OKX written and processed first:
\* the weight of OKX has become 0.99 * 0.05 + 0.01 * 1 = 0.0595
ValAfterOKXThenBinance ==
  FDiv(FAdd(FMul(Lit(120001, 2), Lit(40, 100)), FMul(Lit(120005, 2), Lit(595, 10000))),
       Lit(4595, 10000))

C11_PongCarriesPingValue ==
  LET c == conn[HTX]
  IN  /\ pc[HTX] \in {"read", "parse", "send"} => Len(c.pongs) = Len(c.pings)
      /\ pc[HTX] = "pong" => tickId[HTX] = NoMsg /\ Len(c.pongs) = Len(c.pings) - 1
      /\ \A i \in 1 .. Len(c.pongs) :
           /\ c.pongs[i].sock = c.pings[i].sock
           /\ c.pongs[i].val = c.pings[i].val
           /\ c.pongs[i].quiet

\* C18: from a read error until the session normalizes the first message of
\* the new connection, every cell of the session's row holds what it held
\* when the read failed.
C18_RowKeptAcrossReconnect ==
  \A e \in Exchanges :
    conn[e].rowAtFault # NoRow => Tickers[e] = conn[e].rowAtFault

\* a session whose row holds a written quote has had a read error, has
\* dialed and subscribed again and has read a message on the new connection
C18_MessageReadAfterReconnect ==
  \E e \in Sessions :
    /\ conn[e].rowAtFault # NoRow
    /\ conn[e].dials = 2
    /\ pc[e] = "parse"
    /\ \E j \in Slots : cellSeq[e][j] > 0 /\ Tickers[e][j] # NaNCell

\* C19: a session never holds more than one open socket: the faulted socket
\* is closed before the next is dialed.  The code does not close it.
C19_AtMostOneOpenSocket ==
  \A e \in Exchanges : Cardinality(conn[e].open) <= 1

\* C20: the step of a session before each Dial after the first is a backoff
\* wait.  The code dials straight from the read error.
C20_BackoffBeforeRedial ==
  \A e \in Exchanges : conn[e].dials > 1 => conn[e].prev = "backoff"

(***************************************************************************)
(* Properties of the writers of the lattice                                *)
(***************************************************************************)
\* the slots of the symbols a shard was given
OwnedSlots(sh) == sh.offset .. sh.offset + Len(sh.symbols) - 1

\* the shards that are writing slot j of the Bybit row in this step
ShardsWriting(j) ==
  {k \in 1 .. Len(bybit.shards) :
     /\ bybit.shards[k].pc = "parse"
     /\ bybit.shards[k].tickId.slot = j
     /\ bybit'.shards[k].pc # "parse"}

\* a step that changes cell (e, j) is the write of the session of e: of the
\* read loop of e, or for Bybit of the one shard that owns slot j
WrittenByOwner(e, j) ==
  IF e = BYBIT
  THEN /\ Cardinality(ShardsWriting(j)) = 1
       /\ \A k \in ShardsWriting(j) : j \in OwnedSlots(bybit.shards[k])
       /\ pc[e] # "parse"
  ELSE /\ pc[e] = "parse"
       /\ tickId[e].slot = j
       /\ pc'[e] # "parse"
       /\ ShardsWriting(j) = {}

\* C15: every change of a lattice cell (e, j) after startup is made by the
\* session of exchange e, and for Bybit by the shard that owns slot j; the
\* slots the shards own and the slots they have written are pairwise
\* disjoint, so no cell has two writers.
C15_SingleWriterPerCell ==
  /\ [](\A k1, k2 \in 1 .. Len(bybit.shards) :
          k1 # k2 =>
            /\ OwnedSlots(bybit.shards[k1]) \cap OwnedSlots(bybit.shards[k2]) = {}
            /\ bybit.shards[k1].wrote \cap bybit.shards[k2].wrote = {})
  /\ [](\A k \in 1 .. Len(bybit.shards) :
          bybit.shards[k].wrote \subseteq OwnedSlots(bybit.shards[k]))
  /\ [][\A e \in Exchanges : \A j \in DOMAIN Tickers[e] :
          Tickers'[e][j] # Tickers[e][j] => WrittenByOwner(e, j)]_vars

\* two shards have each written a cell of the Bybit row
C15_TwoShardsHaveWritten ==
  \E k1, k2 \in 1 .. Len(bybit.shards) :
    /\ k1 < k2
    /\ bybit.shards[k1].wrote # {}
    /\ bybit.shards[k2].wrote # {}
    /\ \A j \in bybit.shards[k1].wrote \cup bybit.shards[k2].wrote :
         Tickers[BYBIT][j] # NaNCell

(***************************************************************************)
(* Properties of failure and shutdown                                      *)
(***************************************************************************)
\* C21: no dial error and no error of the subscription write ends a session
\* or the process, and after a read error the session is at RECONNECT.  The
\* code panics on the first two.
C21_FailureLeadsBackToConnecting ==
  \A e \in Exchanges :
    /\ conn[e].fatal \notin {"dial", "subscribe"}
    /\ conn[e].last = "fault" => pc[e] = RECONNECT(e)

\* C22: an HTX frame that is no gzip stream is dropped and the session, the
\* other sessions and the index goroutine keep running.  The code panics.
C22_DecodeFailureDropsFrame ==
  \A e \in Exchanges :
    conn[e].fatal = "gzip" =>
      /\ pc[e] # "exit"
      /\ engine.pc # "exit"
      /\ sink.pc # "exit"

\* C28: when the process has ended after an interrupt, every session had
\* left its read loop and closed its sockets itself.  The code lets main
\* return right after it has set shouldClose.
C28_ExitAfterSessionsReturned ==
  (main.shouldClose /\ main.pc = "exit") =>
    \A e \in DOMAIN stream : conn[e].last = "return"

\* C29: when w.Close() has returned, the file is closed, the mapping is
\* unmapped and the file still exists.  The code does not unmap.
C29_WriterClosedAndUnmapped ==
  main.pc = "closed" => main.file = "closed" /\ ~main.mapped /\ main.exists

\* C30: a token request of Kucoin that fails ends neither the process nor
\* another session nor the index goroutine.  The code panics.
C30_BootstrapFailureStaysInSession ==
  \A e \in Exchanges :
    conn[e].fatal = "bootstrap" =>
      /\ engine.pc # "exit"
      /\ \A x \in Exchanges \ {e} : pc[x] # "exit"

(***************************************************************************)
(* Properties of startup                                                   *)
(***************************************************************************)
\* no session has written a cell and the engine has not recomputed
NothingWritten ==
  /\ \A e \in Exchanges : \A j \in DOMAIN cellSeq[e] : cellSeq[e][j] = 0
  /\ ~Scanned

\* C26: after the initialization of main and before any write of a session,
\* every cell of the lattice has four NaN fields and every index has val
\* NaN.  The code sets NaN only where the roster has a symbol.
C26_AllNaNAfterInit ==
  NothingWritten =>
    /\ \A e \in Exchanges : \A j \in DOMAIN Tickers[e] : Tickers[e][j] = NaNCell
    /\ \A j \in DOMAIN PriceIndices : IsNaN(PriceIndices[j].Val)

\* C27: the row of an exchange that lists no symbol is NaN in every cell all
\* the time, and no recompute counts it or adds it to its sums.  The code
\* leaves the row as the file had it.
C27_EmptyRowStaysNaN ==
  \A e \in Exchanges :
    roster[e] = 0 =>
      /\ \A j \in DOMAIN Tickers[e] : Tickers[e][j] = NaNCell
      /\ Scanned => ~HasQuote(lastScan.column[e])

(***************************************************************************)
(* Properties of the frames a session drops                                *)
(***************************************************************************)
\* the price fields of a message are empty strings
EmptyPrices(m) == m.b = Txt("") \/ m.a = Txt("")

\* C24: a message with empty price fields is dropped: no session is about
\* to send a slot for one, and no cell a session has written holds the
\* prices 0 and 0.  The code writes the cell and sends the slot.
C24_EmptyPricesDropped ==
  \A e \in Exchanges :
    /\ pc[e] = "send" => ~EmptyPrices(tickId[e].ticker)
    /\ \A j \in DOMAIN Tickers[e] :
         cellSeq[e][j] > 0 => ~(IsZero(Tickers[e][j].Bid) /\ IsZero(Tickers[e][j].Ask))

\* C23: a Bybit message whose data.b or data.a is empty is dropped: the
\* shard that read it does not stop and the process keeps running.  The code
\* indexes element [0] of the empty list and panics.
C23_EmptySideDropped ==
  /\ \A k \in 1 .. Len(bybit.shards) : bybit.shards[k].pc # "panic"
  /\ conn[BYBIT].fatal # "parse"

(***************************************************************************)
(* Properties of the persistence goroutine                                 *)
(***************************************************************************)
\* the reads of the sink that found a finite val
RECURSIVE FiniteReads(_)
FiniteReads(seen) ==
  IF seen = <<>> THEN <<>>
  ELSE IF IsFinite(Head(seen).val) THEN <<Head(seen)>> \o FiniteReads(Tail(seen))
  ELSE FiniteReads(Tail(seen))

\* C25: the records the sink has inserted are, in order, exactly its reads
\* of a slot whose val was finite: one record per tick and slot with a
\* finite val, tagged with the symbol of row 0, and none for any other
\* val.  The code tests !math.IsNaN and inserts a record for val = +Inf.
C25_OneRecordPerFiniteSlot == sink.rows = FiniteReads(sink.seen)

(***************************************************************************)
(* Properties of the totals, the weights and the commit                    *)
(***************************************************************************)
\* C31: after every recompute whose total weight is positive, both quantity
\* totals of the scan are positive, so neither VWAP is a division by zero.
\* The code does not keep this and asserts nothing.
C31_PositiveWeightPositiveTotals ==
  Committed =>
    /\ FPos(lastScan.acc.bidQtyTotal)
    /\ FPos(lastScan.acc.askQtyTotal)

\* no recompute has adapted a weight yet
WeightsAsInitialized == \A e \in Exchanges : trace[e].recvs = <<>>

\* C32: after initWeights, the eight weights of every symbol are positive,
\* sum to exactly 1, and are the same vector for every symbol.  The
\* defaults of the code sum to 0.909.
C32_DefaultWeightsSumToOne ==
  WeightsAsInitialized =>
    \A j \in Slots :
      /\ \A e \in Exchanges : FPos(exchangeWeights[j][e])
      /\ FEq(SumOver(exchangeWeights[j], Exchanges, 0), Lit(1, 1))
      /\ exchangeWeights[j] = exchangeWeights[0]

\* C33: a recompute that finds no contribution (total weight not positive)
\* changes only val of its slot, to NaN: count, both VWAPs and both quantity
\* totals keep the values the slot had before the recompute.
C33_NaNBranchChangesOnlyVal ==
  (Scanned /\ ~Committed) =>
    /\ IsNaN(Index.Val)
    /\ Index.Cnt = lastScan.old.Cnt
    /\ Index.BidVWAP = lastScan.old.BidVWAP
    /\ Index.AskVWAP = lastScan.old.AskVWAP
    /\ Index.BidQtyTotal = lastScan.old.BidQtyTotal
    /\ Index.AskQtyTotal = lastScan.old.AskQtyTotal

\* a recompute without contribution has followed a commit of the same slot
C33_NaNBranchAfterCommit ==
  /\ Scanned
  /\ ~Committed
  /\ IsFinite(lastScan.old.Val)
  /\ lastScan.old.Cnt > 0
  /\ FPos(lastScan.old.AskQtyTotal)

\* the share of exchange e in the quantity the latest scan found: its
\* bid_qty + ask_qty over the two totals of the contributing rows
ShareOfScan(e) ==
  LET col == lastScan.column
      bidQty == SumOver([x \in Exchanges |-> col[x].BidQty], ContributingRows, 0)
      askQty == SumOver([x \in Exchanges |-> col[x].AskQty], ContributingRows, 0)
  IN  FDiv(FAdd(col[e].BidQty, col[e].AskQty), FAdd(bidQty, askQty))

\* the composite of the latest scan under the weights w
CompositeUnder(w) ==
  LET col == lastScan.column
      mids == [x \in Exchanges |->
                 FMul(FDiv(FAdd(col[x].Bid, col[x].Ask), Lit(2, 1)), w[x])]
  IN  FDiv(SumOver(mids, ContributingRows, 0), SumOver(w, ContributingRows, 0))

\* C34: after every recompute of slot j the weight of each contributing
\* exchange is 0.99 * its weight before the recompute + 0.01 * its share of
\* the totals of this scan, the weight of every other exchange is the one
\* before the recompute, and a committed val is the composite under the
\* weights before the recompute.
C34_WeightsAdaptedAfterVal ==
  Scanned =>
    /\ \A e \in Exchanges :
         SameFloat(exchangeWeights[lastScan.symIx][e],
                   IF e \in ContributingRows
                   THEN FAdd(FMul(Lit(99, 100), lastScan.weights[e]),
                             FMul(Lit(1, 100), ShareOfScan(e)))
                   ELSE lastScan.weights[e])
    /\ Committed => SameFloat(Index.Val, CompositeUnder(lastScan.weights))

\* a recompute with two contributing rows whose weights an earlier
\* recompute had already moved, so that val under the weights before and
\* after the adaptation differ
C34_TwoRowsAdaptedTwice ==
  /\ Committed
  /\ Cardinality(ContributingRows) = 2
  /\ \E e \in ContributingRows : lastScan.weights[e] # DefaultWeights[e + 1]
  /\ ~SameFloat(CompositeUnder(lastScan.weights),
                CompositeUnder(exchangeWeights[lastScan.symIx]))

(***************************************************************************)
(* Properties of a roster with an empty entry                              *)
(***************************************************************************)
\* C35: the cell of an empty roster entry is never written by the session
\* and its slot is never sent; a control message without a symbol field is
\* not resolved to it.  The code stores the empty spelling in symbolToTick
\* and resolves every such message to the slot of the empty entry.
C35_EmptyEntryNeverWritten ==
  \A e \in Exchanges : \A j \in unlisted[e] :
    /\ Tickers[e][j] = NaNCell
    /\ cellSeq[e][j] = 0
    /\ pc[e] \in {"parse", "send"} => tickId[e].slot # j
    /\ \A i \in DOMAIN trace[e].sends : trace[e].sends[i].slot # j

(***************************************************************************)
(* Properties of the range of the weights                                  *)
(***************************************************************************)
\* x is finite and 0 < x <= 1
InUnitInterval(x) == IsFinite(x) /\ FPos(x) /\ ~FPos(FAdd(x, Lit(-1, 1)))

\* every field of every message of the run is a finite number
FiniteStream ==
  \A e \in DOMAIN stream : \A m \in stream[e] :
    \A f \in {m.b, m.a, m.B, m.A} : IsFinite(ParseFloat(f))

\* C36: while the ticker fields are finite, every weight lies in (0, 1];
\* in the latest recompute the share of each contributing exchange lies in
\* (0, 1] and the shares of the contributing exchanges sum to 1.  The code
\* does not keep this when the sum of two finite quantities overflows.
C36_WeightsInUnitInterval ==
  FiniteStream =>
    /\ \A j \in Slots, e \in Exchanges : InUnitInterval(exchangeWeights[j][e])
    /\ Scanned =>
         /\ \A e \in ContributingRows : InUnitInterval(ShareOfScan(e))
         /\ ContributingRows # {} =>
              FEq(SumOver([e \in Exchanges |-> ShareOfScan(e)], ContributingRows, 0),
                  Lit(1, 1))

\* C37: the step UpdatePriceIndex(j) leaves every lattice cell unchanged, and
\* for every slot k other than j the index slot indices[k] and the weights
\* weight[k][*]; it writes only indices[j] and weight[j][*].
C37_RecomputeTouchesOnlyItsSlot ==
  [][(engine.pc = "update" /\ engine'.pc = "recv") =>
       /\ Tickers' = Tickers
       /\ \A k \in Slots \ {engine.symIx} :
            /\ PriceIndices'[k] = PriceIndices[k]
            /\ exchangeWeights'[k] = exchangeWeights[k]]_vars

\* a recompute has changed the index slot and the weights of its slot while
\* another slot holds a committed index and adapted weights of its own
C37_OtherSlotHoldsItsOwn ==
  /\ Committed
  /\ Index # lastScan.old
  /\ exchangeWeights[lastScan.symIx] # lastScan.weights
  /\ \E k \in Slots \ {lastScan.symIx} :
       /\ IsFinite(PriceIndices[k].Val)
       /\ exchangeWeights[k] # initWeights[k]
       /\ exchangeWeights[k] # exchangeWeights[lastScan.symIx]

\* C38: every record the sink emits carries six fields that the stores of
\* one single recompute left, also when the engine commits while the sink
\* copies the slot.  The code does not keep this.
C38_RecordFromOneRecompute ==
  \A i \in DOMAIN sink.rows :
    \A f, g \in DOMAIN sink.rows[i].by : sink.rows[i].by[f] = sink.rows[i].by[g]

\* the row of exchange e is what one message made of it, or has a field no
\* message has written yet
FromOneMessage(cell, e) ==
  \/ \E m \in stream[e] : cell = Parse(NaNCell, m)
  \/ IsNaN(cell.Bid)
  \/ IsNaN(cell.Ask)

\* C39: the row a recompute scans for an exchange never holds fields of two
\* different messages, also when the session writes the cell while the engine
\* scans.  The code does not keep this.
C39_ScannedRowFromOneMessage ==
  Scanned => \A e \in DOMAIN stream : FromOneMessage(lastScan.column[e], e)

\* the sessions are between two messages, the channel is empty and the
\* engine waits for the next slot
Drained ==
  /\ \A e \in Exchanges : pc[e] = "read"
  /\ updateChan = <<>>
  /\ engine.pc = "recv"

\* the index slot of every slot sent so far is what the latest recompute
\* made of the present contents of its column
UpToDate ==
  \A e \in Exchanges : \A i \in DOMAIN trace[e].sends :
    /\ lastScan.symIx = trace[e].sends[i].slot
    /\ lastScan.column = Column(lastScan.symIx)
    /\ Index = Finalize(lastScan.old, lastScan.acc)

\* C40: with the engine scheduled fairly and no shutdown, every slot sent is
\* received and recomputed in the end, no session stays blocked on its send,
\* and whenever the sessions rest and the channel has drained the index slot
\* is the result of a recompute of the final contents of the column.  The
\* code does not keep this.
C40_SentSlotsAreRecomputed ==
  /\ (updateChan # <<>>) ~> (updateChan = <<>> /\ engine.pc = "recv")
  /\ \A e \in Exchanges : (pc[e] = "send") ~> (pc[e] # "send")
  /\ [](Drained => UpToDate)

====
